---- MODULE Spec2Model ----
(***************************************************************************)
(* Streaming multi-provider chat orchestrator of agent-gaia:               *)
(*   src/src/api/routes/chat.py      websocket_chat, process_chat          *)
(*   src/src/core/llm_router.py      LLMRouter.get_llm, _try_backup        *)
(*   src/src/utils/token_counter.py  TokenCounter, SessionUsage            *)
(*                                                                         *)
(* Strings are sequences of tokens, "" is << >> and + is \o.  One action   *)
(* is one run of a coroutine between two suspension points that matter    *)
(* for shared state (awaits on the repository, on the cost table, on the  *)
(* next chunk of a backend stream).                                        *)
(***************************************************************************)
EXTENDS Integers, Sequences, FiniteSets, TLC

(* ---------------------------- bounds ---------------------------------- *)

\* chat events accepted in one behaviour of a scenario with one client
MaxTurns == 1

\* chat events accepted in one behaviour of the scenario with two clients
MaxSharedTurns == 2

\* chunks one backend stream yields at most
MaxChunks == 2

\* user/assistant rows of the conversation found in the repository at start
MaxStored == 50

\* clear_history, load_conversation and DELETE requests in one behaviour
MaxResets == 1

\* length of the configured backup chains drawn in the router specification
MaxChain == 3

\* rating events in one behaviour
MaxRatings == 1

\* messages in a list handed to track_usage
MaxTracked == 2

\* usage records of a session between two resets, in the sessions scenario
MaxCalls == 2

(* ------------------------ program constants --------------------------- *)

MAX_HISTORY_MESSAGES == 50

\* count_messages: overhead added per message
MessageOverhead == 4

\* the provider table: the registered provider names
PROVIDER_CONFIGS == {"claude"}

\* ProviderConfig.api_key_name of a registered provider
ApiKeyName(p) == IF p = "claude" THEN "anthropic" ELSE "none"

\* settings.llm.models: provider name -> model name ("unknown" when absent)
ModelOf(p) ==
  CASE p = "claude" -> "claude-opus-4-5-20251101"
    [] p = "openai" -> "gpt-5.1"
    [] p = "gemini" -> "gemini-3-pro-preview"
    [] OTHER -> "unknown"

\* backup_provider.__class__.__name__.lower().replace("chat", "")
\* the only client class of the provider table is ChatAnthropic
ClientLabel(p) == IF p = "claude" THEN "anthropic" ELSE "none"

\* settings.llm.backup_chain as shipped
DefaultChain == <<"claude", "openai", "gemini">>

(* --------------------------- input sets ------------------------------- *)

\* websocket objects
Conns == {"w1", "w2"}

\* the websocket of the scenarios with one client
OneClient == {"w1"}

\* values of the provider query parameter of /ws/chat
ProviderKeys == {"claude", "openai"}

\* configurations of llm.backup_chain the orchestrator runs under
ChainOptions == {DefaultChain, <<"openai", "claude">>, <<"claude", "openai", "claude">>}

\* names a configured chain is made of, and the failed names tried on them
ChainNames == {"claude", "openai", "gemini"}

FailedNames == ChainNames \cup {"other"}

\* conversation ids a load_conversation event carries
LoadIds == {"c1", "missing"}

None == "none"

(* ------------------------------ values -------------------------------- *)

\* one token of text; t is the turn (0: repository seed), i a position
Tok(kind, t, i) == [k |-> kind, t |-> t, i |-> i]

\* message content: TextContent(string) or MultimodalContent(text, images)
TextContent(s) == [kind |-> "text", text |-> s, images |-> << >>]

MultimodalContent(s, imgs) == [kind |-> "multimodal", text |-> s, images |-> imgs]

HumanMessage(c) == [role |-> "user", content |-> c]

AIMessage(c) == [role |-> "assistant", content |-> c]

SystemMessage(c) == [role |-> "system", content |-> c]

SYSTEM_PROMPT == << Tok("system", 0, 0) >>

\* a row of the messages table
Row(role, s) == [role |-> role, content |-> s]

\* the conversation "c1" of the repository when the process starts: one
\* system row, then MaxStored alternating user and assistant rows
StoredConversation ==
  [i \in 1..(MaxStored + 1) |->
     IF i = 1 THEN Row("system", << Tok("db", 0, 0) >>)
     ELSE Row(IF i % 2 = 0 THEN "user" ELSE "assistant", << Tok("db", 0, i - 1) >>)]

\* SessionUsage()
ZeroUsage ==
  [total_input_tokens |-> 0, total_output_tokens |-> 0, total_tokens |-> 0,
   total_cost |-> 0, message_count |-> 0]

\* the session field of an event that carries none
NoUsage ==
  [total_input_tokens |-> -1, total_output_tokens |-> -1, total_tokens |-> -1,
   total_cost |-> -1, message_count |-> -1]

\* the message field of an event that carries none
NoTokenUsage == [input_tokens |-> -1, output_tokens |-> -1, total_tokens |-> -1, cost |-> -1]

\* an outbound JSON message; turn is the turn that sent it (0: dispatch loop)
Event(type, provider, t) ==
  [type |-> type, provider |-> provider, turn |-> t, chunk |-> << >>,
   original_provider |-> None, backup_provider |-> None, session |-> NoUsage,
   message |-> NoTokenUsage, conversation_id |-> None, count |-> -1]

Min(a, b) == IF a < b THEN a ELSE b

(* ------------------------------ state --------------------------------- *)

VARIABLES
  backup_chain,             \* LLMRouter.backup_chain (settings.llm.backup_chain)
  api_keys,                 \* LLMRouter.api_keys: the key names that have a key
  conn,                     \* per websocket: client_state, provider, dispatch loop
  active_connections,       \* ConnectionManager.active_connections
  conversation_history,     \* the shared message log
  current_conversation_id,  \* id of the repository conversation in use
  db,                       \* repository: conversation id -> rows of messages
  sessions,                 \* TokenCounter._sessions: session id -> SessionUsage
  turns,                    \* the process_chat tasks, in order of creation
  sent,                     \* per websocket: messages its dispatch loop delivered
  out,                      \* per turn: the messages the turn delivered
  deleting,                 \* DELETE request whose repository call returned
  events,                   \* history: what was requested and done so far
  fb,                       \* the last call of the router and tracker scenarios
  user_ratings,             \* message id -> provider key -> rating
  encoding                  \* TokenCounter._encoding: loaded, or None

vars ==
  << backup_chain, api_keys, conn, active_connections, conversation_history,
     current_conversation_id, db, sessions, turns, sent, out, deleting, events, fb,
     user_ratings, encoding >>

\* what the process is started with and never changes
routerVars == << backup_chain, api_keys, encoding >>

\* the variables the chat orchestrator works on
chatVars ==
  << conn, active_connections, conversation_history, current_conversation_id,
     db, sessions, turns, sent, out, deleting, events, user_ratings >>

\* no _try_backup call under observation
NoCall == [phase |-> "none", failed |-> None, ok |-> FALSE, llm |-> None, attempts |-> << >>]

\* the history kept for the properties: requests received (clear, load,
\* delete), conversations created, logs replaced by a load (loaded), emptied
\* by a DELETE (wiped) or cut by the trim (trim), and for the last
\* clear_history its websocket and the chat and load events received before;
\* the connections accepted (connects), the turn that was running when the
\* last of them was accepted (connect_during, 0 for none), the rating events
\* handled (ratings) and, per session id, the usage records added since the
\* entry was created or last reset (ledger); at_reset is the number of
\* conversations created when the current conversation id was last reset
NoEvents ==
  [clear |-> 0, load |-> 0, delete |-> 0, created |-> 0, loaded |-> 0, wiped |-> 0,
   trim |-> 0, clear_by |-> None, clear_turns |-> -1, clear_loads |-> -1,
   connects |-> 0, connect_during |-> 0, ratings |-> 0, ledger |-> [w \in Conns |-> << >>],
   at_reset |-> 0]

NewConn == [state |-> "new", provider |-> None, loop |-> "recv", conv_id |-> None,
            found |-> FALSE, rows |-> << >>]

\* the chat orchestrator when the process has started
InitChat ==
  /\ conn = [w \in Conns |-> NewConn]
  /\ active_connections = [p \in ProviderKeys |-> None]
  /\ conversation_history = << >>
  /\ current_conversation_id = None
  /\ db = [c \in {"c1"} |-> StoredConversation]
  /\ sessions = [w \in {} |-> ZeroUsage]
  /\ turns = << >>
  /\ sent = [w \in Conns |-> << >>]
  /\ out = << >>
  /\ deleting = None
  /\ events = NoEvents
  /\ fb = NoCall
  /\ user_ratings = [m \in {} |-> [p \in {} |-> 0]]

\* LLMRouter.__init__ under the configurations of chain and keys
\* TokenCounter.__init__: the tiktoken encoding, or None (counting by
\* length) when it could not be loaded
Encodings == {"tiktoken", "approximate"}

\* the scenarios whose messages are all plain text run with the encoding
\* loaded: the two ways of counting differ only on content that is a list
Init ==
  /\ backup_chain \in ChainOptions
  /\ api_keys \in SUBSET {"anthropic"}
  /\ encoding = "tiktoken"
  /\ InitChat

(* ----------------------------- helpers -------------------------------- *)

\* is_ws_connected
is_ws_connected(w) == conn[w].state = "open"

\* safe_send applied to the delivered messages s; k is the websocket for a
\* message of the dispatch loop and the turn for a message of a turn.  Once
\* websocket_chat has returned the transport is closed: send_json raises and
\* safe_send swallows it
safe_send(s, w, k, ev) ==
  IF is_ws_connected(w) /\ conn[w].loop # "exited" THEN [s EXCEPT ![k] = Append(@, ev)]
  ELSE s

\* TokenCounter.get_session: the entry is created when absent
get_session(s, sid) == IF sid \in DOMAIN s THEN s ELSE s @@ (sid :> ZeroUsage)

\* reset_session that leaves the totals as they are
reset_session_keeps(s, sid) == s

\* reset_session that resets the totals of every session
reset_session_all(s, sid) == [x \in DOMAIN s |-> ZeroUsage]

\* TokenCounter.reset_session
reset_session(s, sid) == IF sid \in DOMAIN s THEN [s EXCEPT ![sid] = ZeroUsage] ELSE s

\* TokenCounter.remove_session
remove_session(s, sid) == [x \in DOMAIN s \ {sid} |-> s[x]]

\* ConnectionManager.disconnect
disconnect(ac, p) == IF ac[p] # None THEN [ac EXCEPT ![p] = None] ELSE ac

\* a rebuild loop that takes the rows of every other role as user messages
RECURSIVE RebuildHistoryAllRoles(_)
RebuildHistoryAllRoles(rows) ==
  IF rows = << >> THEN << >>
  ELSE LET r == Head(rows)
           m == IF r.role = "assistant" THEN << AIMessage(TextContent(r.content)) >>
                ELSE << HumanMessage(TextContent(r.content)) >>
       IN  m \o RebuildHistoryAllRoles(Tail(rows))

\* the rebuild loop of load_conversation: user and assistant rows only
RECURSIVE RebuildHistory(_)
RebuildHistory(rows) ==
  IF rows = << >> THEN << >>
  ELSE LET r == Head(rows)
           m == IF r.role = "user" THEN << HumanMessage(TextContent(r.content)) >>
                ELSE IF r.role = "assistant" THEN << AIMessage(TextContent(r.content)) >>
                ELSE << >>
       IN  m \o RebuildHistory(Tail(rows))

\* the trim written as del conversation_history[MAX_HISTORY_MESSAGES:]
TrimHistoryTail(h) ==
  IF Len(h) > MAX_HISTORY_MESSAGES THEN SubSeq(h, 1, MAX_HISTORY_MESSAGES) ELSE h

\* del conversation_history[:-MAX_HISTORY_MESSAGES] when the log is too long
TrimHistory(h) ==
  IF Len(h) > MAX_HISTORY_MESSAGES
  THEN SubSeq(h, Len(h) - MAX_HISTORY_MESSAGES + 1, Len(h))
  ELSE h

\* conversation_history.append(HumanMessage(...)) followed by the trim
AppendUserMessage(h, text) == TrimHistory(Append(h, HumanMessage(TextContent(text))))

\* conversation_history.append(AIMessage(content=full_response))
AppendAssistantMessage(h, text) == Append(h, AIMessage(TextContent(text)))

\* ConversationRepository.add_message: the insert fails when the
\* conversation row is gone
add_message(d, cid, role, text) ==
  IF cid \in DOMAIN d THEN [d EXCEPT ![cid] = Append(@, Row(role, text))] ELSE d

(* ------------------------- connection events -------------------------- *)

\* the turn that is running, 0 when there is none
RunningTurn ==
  IF \E t \in 1..Len(turns) : turns[t].pc # "done"
  THEN CHOOSE t \in 1..Len(turns) : turns[t].pc # "done"
  ELSE 0

\* a connect that closes the socket registered under the key before
ConnectClosesPrevious(w, p) ==
  /\ conn[w].state = "new"
  /\ conn' = [v \in Conns |->
                IF v = w THEN [conn[v] EXCEPT !.state = "open", !.provider = p]
                ELSE IF v = active_connections[p] THEN [conn[v] EXCEPT !.state = "closed"]
                ELSE conn[v]]
  /\ active_connections' = [active_connections EXCEPT ![p] = w]
  /\ sent' = [sent EXCEPT ![w] = Append(@, Event("connected", p, 0))]
  /\ events' = [events EXCEPT !.connects = @ + 1, !.connect_during = RunningTurn]
  /\ UNCHANGED << conversation_history, current_conversation_id, db, sessions,
                  turns, deleting, routerVars, fb, user_ratings, out >>

\* websocket_chat that enters its loop without the connected message
ConnectUnannounced(w, p) ==
  /\ conn[w].state = "new"
  /\ conn' = [conn EXCEPT ![w].state = "open", ![w].provider = p]
  /\ active_connections' = [active_connections EXCEPT ![p] = w]
  /\ events' = [events EXCEPT !.connects = @ + 1, !.connect_during = RunningTurn]
  /\ UNCHANGED << conversation_history, current_conversation_id, db, sessions,
                  turns, deleting, routerVars, fb, user_ratings, out, sent >>

\* websocket_chat up to its loop: manager.connect and the connected message
Connect(w, p) ==
  /\ conn[w].state = "new"
  /\ conn' = [conn EXCEPT ![w].state = "open", ![w].provider = p]
  /\ active_connections' = [active_connections EXCEPT ![p] = w]
  /\ sent' = [sent EXCEPT ![w] = Append(@, Event("connected", p, 0))]
  /\ events' = [events EXCEPT !.connects = @ + 1, !.connect_during = RunningTurn]
  /\ UNCHANGED << conversation_history, current_conversation_id, db, sessions,
                  turns, deleting, routerVars, fb, user_ratings, out >>

\* receive_json raises WebSocketDisconnect: the client state becomes
\* DISCONNECTED, the registry entry of the provider key and the usage entry
\* of the session are removed
Disconnect(w) ==
  /\ conn[w].state = "open"
  /\ conn[w].loop = "recv"
  /\ conn' = [conn EXCEPT ![w].state = "closed"]
  /\ active_connections' = disconnect(active_connections, conn[w].provider)
  /\ sessions' = remove_session(sessions, w)
  /\ events' = [events EXCEPT !.ledger[w] = << >>]
  /\ UNCHANGED << conversation_history, current_conversation_id, db, turns, sent,
                  deleting, routerVars, fb, user_ratings, out >>

\* receive_json or data.get raises on a frame that is not valid JSON or not
\* a JSON object: the except Exception branch removes the registry entry of
\* the provider key and the usage entry of the session, and websocket_chat
\* returns.  The client state stays CONNECTED; the server closes the
\* transport once the handler has returned.
MalformedEvent(w) ==
  /\ conn[w].state = "open"
  /\ conn[w].loop = "recv"
  /\ conn' = [conn EXCEPT ![w].loop = "exited"]
  /\ active_connections' = disconnect(active_connections, conn[w].provider)
  /\ sessions' = remove_session(sessions, w)
  /\ events' = [events EXCEPT !.ledger[w] = << >>]
  /\ UNCHANGED << conversation_history, current_conversation_id, db, turns, sent,
                  deleting, routerVars, fb, user_ratings, out >>

\* message ids and ratings a rating event carries
MessageIds == {0}

Ratings == {1, 5}

\* the rating branch of the dispatch loop: nothing is sent back
Rating(w, message_id, rating) ==
  /\ conn[w].state = "open"
  /\ conn[w].loop = "recv"
  /\ LET p   == conn[w].provider
         old == IF message_id \in DOMAIN user_ratings THEN user_ratings[message_id]
                ELSE [x \in {} |-> 0]
         new == [x \in DOMAIN old \cup {p} |-> IF x = p THEN rating ELSE old[x]]
     IN  user_ratings' = [m \in DOMAIN user_ratings \cup {message_id} |->
                            IF m = message_id THEN new ELSE user_ratings[m]]
  /\ events' = [events EXCEPT !.ratings = @ + 1]
  /\ UNCHANGED << conn, active_connections, conversation_history,
                  current_conversation_id, db, sessions, turns, sent, deleting,
                  routerVars, fb, out >>

\* a clear_history branch that resets the usage of every session
ClearHistoryResetsAll(w) ==
  /\ conn[w].state = "open"
  /\ conn[w].loop = "recv"
  /\ events' = [events EXCEPT !.clear = @ + 1, !.clear_by = w,
                               !.at_reset = events.created,
                               !.clear_turns = Len(turns), !.clear_loads = events.load,
                               !.ledger[w] = << >>]
  /\ conversation_history' = << >>
  /\ current_conversation_id' = None
  /\ LET reset == reset_session_all(sessions, w)
         after == get_session(reset, w)
     IN  /\ sessions' = after
         /\ sent' = safe_send(sent, w, w,
                      [Event("history_cleared", conn[w].provider, 0)
                         EXCEPT !.session = after[w]])
  /\ UNCHANGED << conn, active_connections, db, turns, deleting, routerVars, fb,
                  user_ratings, out >>

\* the clear_history branch of the dispatch loop
ClearHistory(w) ==
  /\ conn[w].state = "open"
  /\ conn[w].loop = "recv"
  /\ events' = [events EXCEPT !.clear = @ + 1, !.clear_by = w,
                               !.at_reset = events.created,
                               !.clear_turns = Len(turns), !.clear_loads = events.load,
                               !.ledger[w] = << >>]
  /\ conversation_history' = << >>
  /\ current_conversation_id' = None
  /\ LET reset == reset_session(sessions, w)
         after == get_session(reset, w)
     IN  /\ sessions' = after
         /\ sent' = safe_send(sent, w, w,
                      [Event("history_cleared", conn[w].provider, 0)
                         EXCEPT !.session = after[w]])
  /\ UNCHANGED << conn, active_connections, db, turns, deleting, routerVars, fb,
                  user_ratings, out >>

\* the load_conversation branch, up to the repository's answer: the lookup
\* returns the conversation with its rows, or None (no such row, or an error)
LoadRequest(w, cid, fails) ==
  /\ conn[w].state = "open"
  /\ conn[w].loop = "recv"
  /\ events' = [events EXCEPT !.load = @ + 1]
  /\ LET ok == cid \in DOMAIN db /\ ~fails
     IN  conn' = [conn EXCEPT ![w].loop = "loading", ![w].conv_id = cid,
                              ![w].found = ok,
                              ![w].rows = IF ok THEN db[cid] ELSE << >>]
  /\ UNCHANGED << active_connections, conversation_history, current_conversation_id,
                  db, sessions, turns, sent, deleting, routerVars, fb, user_ratings, out >>

\* a load_conversation branch that clears the log and the current id
\* before it looks at the answer of the lookup
LoadApplyClearsFirst(w) ==
  /\ conn[w].loop = "loading"
  /\ conn' = [conn EXCEPT ![w].loop = "recv", ![w].conv_id = None,
                           ![w].found = FALSE, ![w].rows = << >>]
  /\ IF conn[w].found
     THEN /\ conversation_history' = RebuildHistory(conn[w].rows)
          /\ current_conversation_id' = conn[w].conv_id
          /\ events' = [events EXCEPT !.loaded = @ + 1, !.at_reset = events.created]
          /\ sent' = safe_send(sent, w, w,
                       [Event("conversation_loaded", conn[w].provider, 0)
                          EXCEPT !.conversation_id = conn[w].conv_id,
                                 !.count = Len(conn[w].rows)])
     ELSE /\ sent' = safe_send(sent, w, w, Event("error", conn[w].provider, 0))
          /\ conversation_history' = << >>
          /\ current_conversation_id' = None
          /\ UNCHANGED events
  /\ UNCHANGED << active_connections, db, sessions, turns, deleting,
                  routerVars, fb, user_ratings, out >>

\* the load_conversation branch after the lookup
LoadApply(w) ==
  /\ conn[w].loop = "loading"
  /\ conn' = [conn EXCEPT ![w].loop = "recv", ![w].conv_id = None,
                           ![w].found = FALSE, ![w].rows = << >>]
  /\ IF conn[w].found
     THEN /\ conversation_history' = RebuildHistory(conn[w].rows)
          /\ current_conversation_id' = conn[w].conv_id
          /\ events' = [events EXCEPT !.loaded = @ + 1, !.at_reset = events.created]
          /\ sent' = safe_send(sent, w, w,
                       [Event("conversation_loaded", conn[w].provider, 0)
                          EXCEPT !.conversation_id = conn[w].conv_id,
                                 !.count = Len(conn[w].rows)])
     ELSE /\ sent' = safe_send(sent, w, w, Event("error", conn[w].provider, 0))
          /\ UNCHANGED << conversation_history, current_conversation_id, events >>
  /\ UNCHANGED << active_connections, db, sessions, turns, deleting,
                  routerVars, fb, user_ratings, out >>

\* DELETE /conversations/{id}: the repository call (it reports success also
\* when no row matched, and failure on an error)
DeleteRequest(cid, fails) ==
  /\ deleting = None
  /\ events' = [events EXCEPT !.delete = @ + 1]
  /\ IF fails
     THEN UNCHANGED << db, deleting >>
     ELSE /\ db' = [c \in DOMAIN db \ {cid} |-> db[c]]
          /\ deleting' = cid
  /\ UNCHANGED << conn, active_connections, conversation_history,
                  current_conversation_id, sessions, turns, sent, routerVars, fb,
                  user_ratings, out >>

\* DELETE /conversations/{id} after a successful repository call
DeleteApply ==
  /\ deleting # None
  /\ deleting' = None
  /\ IF current_conversation_id = deleting
     THEN /\ conversation_history' = << >>
          /\ current_conversation_id' = None
          /\ events' = [events EXCEPT !.wiped = @ + 1, !.at_reset = events.created]
     ELSE UNCHANGED << conversation_history, current_conversation_id, events >>
  /\ UNCHANGED << conn, active_connections, db, sessions, turns, sent,
                  routerVars, fb, user_ratings, out >>

(* ------------------------------ router -------------------------------- *)

\* get_llm(provider, use_backup=False): the provider is registered and its
\* API key is there, so the client is constructed
CanConstruct(p) == p \in PROVIDER_CONFIGS /\ ApiKeyName(p) \in api_keys

\* self.backup_chain.index(failed_provider), counted from 1; 0 for ValueError
ChainIndex(chain, f) ==
  IF \E i \in 1..Len(chain) : chain[i] = f
  THEN CHOOSE i \in 1..Len(chain) : chain[i] = f /\ \A j \in 1..(i - 1) : chain[j] # f
  ELSE 0

\* the loop of _try_backup over the rest of the chain; tried holds the
\* providers get_llm was called for
RECURSIVE TryEach(_, _)
TryEach(rest, tried) ==
  IF rest = << >> THEN [ok |-> FALSE, llm |-> None, attempts |-> tried]
  ELSE IF CanConstruct(Head(rest))
       THEN [ok |-> TRUE, llm |-> Head(rest), attempts |-> Append(tried, Head(rest))]
       ELSE TryEach(Tail(rest), Append(tried, Head(rest)))

\* _try_backup that searches the chain from the failed provider on
TryBackupFromFailed(chain, failed) ==
  TryEach(SubSeq(chain, IF ChainIndex(chain, failed) = 0 THEN 1
                        ELSE ChainIndex(chain, failed), Len(chain)), << >>)

\* LLMRouter._try_backup: ok with the provider whose client is returned, or
\* not ok for RuntimeError("All backup providers failed")
TryBackup(chain, failed) ==
  TryEach(SubSeq(chain, ChainIndex(chain, failed) + 1, Len(chain)), << >>)

\* LLMRouter.get_llm(provider) as astream calls it (use_backup=True): an
\* unknown provider raises before the try block; a failed construction falls
\* back to the chain without a word to the caller
GetLLM(chain, p) ==
  IF p \notin PROVIDER_CONFIGS THEN [ok |-> FALSE, llm |-> None]
  ELSE IF CanConstruct(p) THEN [ok |-> TRUE, llm |-> p]
  ELSE LET b == TryBackup(chain, p) IN [ok |-> b.ok, llm |-> b.llm]

(* ------------------------- context assembler -------------------------- *)

\* uploaded_files: the kind of the file stored under a name
UploadedKind(f) == IF f = "img" THEN "image" ELSE IF f = "doc" THEN "text" ELSE "missing"

\* attachment lists a chat event carries
AttachmentOptions == { << >> }

\* attachment lists of the context scenario: none, or one uploaded image
UploadOptions == { << >>, << "img" >> }

NoContent == [kind |-> "none", text |-> << >>, images |-> << >>]

\* not message
IsEmptyString(s) == s = << >>

\* not message.strip()
IsBlank(s) == \A i \in 1..Len(s) : s[i].k = "ws"

\* the text_context entries of _build_message_content, joined by "\n\n"
RECURSIVE TextContext(_)
TextContext(atts) ==
  IF atts = << >> THEN << >>
  ELSE LET f == Head(atts)
           own == IF UploadedKind(f) = "image" THEN << Tok("image_label", 0, 0) >>
                  ELSE IF UploadedKind(f) = "text"
                       THEN << Tok("file_label", 0, 0), Tok("file_text", 0, 0) >>
                       ELSE << >>
           rest == TextContext(Tail(atts))
       IN  IF own = << >> THEN rest
           ELSE IF rest = << >> THEN own
           ELSE own \o << Tok("nl", 0, 0) >> \o rest

\* the image_parts of _build_message_content
ImageParts(atts) == SelectSeq(atts, LAMBDA f : UploadedKind(f) = "image")

\* _build_message_content: (text_for_history, multimodal_content or None)
BuildMessageContent(message, atts) ==
  LET ctx  == TextContext(atts)
      text == IF ctx = << >> THEN message ELSE ctx \o << Tok("sep", 0, 0) >> \o message
  IN  [text |-> text,
       multimodal |-> IF ImageParts(atts) = << >> THEN NoContent
                      ELSE MultimodalContent(text, ImageParts(atts))]

\* what the web search of a turn comes to: the message has no search
\* intent, the search fails or finds nothing (has_results is False either
\* way), or it has results
SearchOutcomes == {"no_intent", "nothing", "results"}

\* settings.rag.enabled
RagEnabled(rag) == rag # "disabled"

\* what the retrieval of a turn comes to: switched off, an exception in the
\* try block, a response without success or without results, or results
RagOutcomes == {"disabled", "raises", "nothing", "results"}

\* search_response.to_context() of turn t, "" when there is none
SearchContext(t, search) == IF search = "results" THEN << Tok("search", t, 0) >> ELSE << >>

\* rag_service.format_context(...) of turn t, "" when there is none
RagContext(t, rag) == IF rag = "results" THEN << Tok("rag", t, 0) >> ELSE << >>

\* "\n\n---\n\n"
Delimiter == << Tok("delim", 0, 0) >>

\* the label put before the text that follows the search context
QuestionLabel == << Tok("question_label", 0, 0) >>

\* the two prepend steps on (text_for_history, multimodal_content): the
\* retrieved context first, the search context after it
PrependContext(c, search_context, rag_context) ==
  LET t1 == IF rag_context # << >> THEN rag_context \o Delimiter \o c.text ELSE c.text
      t2 == IF search_context # << >>
            THEN search_context \o Delimiter \o QuestionLabel \o t1 ELSE t1
  IN  [text |-> t2,
       multimodal |-> IF c.multimodal = NoContent THEN NoContent
                      ELSE MultimodalContent(t2, c.multimodal.images)]

\* the messages of the context stage, in the order they are sent
ContextEvents(provider, t, search, rag) ==
  (IF search # "no_intent"
   THEN << Event("searching", provider, t), Event("search_results", provider, t) >>
   ELSE << >>)
  \o (IF RagEnabled(rag) THEN << Event("rag_searching", provider, t) >> ELSE << >>)
  \o (IF rag = "results" THEN << Event("rag_results", provider, t) >> ELSE << >>)

\* safe_send of each message of evs
RECURSIVE SendAll(_, _, _, _)
SendAll(s, w, k, evs) ==
  IF evs = << >> THEN s ELSE SendAll(safe_send(s, w, k, Head(evs)), w, k, Tail(evs))

(* --------------------------- usage tracker ---------------------------- *)

\* TokenCounter.count_tokens: one per token of the text
count_tokens(s) == Len(s)

\* count_tokens(msg.content): of a list content, without the encoding, the
\* number of its parts divided by 3
ContentTokens(c) ==
  IF c.kind = "text" THEN count_tokens(c.text) ELSE (1 + Len(c.images)) \div 3

\* count_tokens(msg.content) raises: the encoding is loaded and the content
\* is a list, which encode() does not take
CountRaises(msgs) ==
  /\ encoding = "tiktoken"
  /\ \E i \in 1..Len(msgs) : msgs[i].content.kind # "text"

\* TokenCounter.count_messages
RECURSIVE count_messages(_)
count_messages(msgs) ==
  IF msgs = << >> THEN 0
  ELSE ContentTokens(Head(msgs).content) + MessageOverhead + count_messages(Tail(msgs))

\* cost per token, in 10^-8 USD: the rate table row, else llm.costs of the
\* settings, else DEFAULT_COST
CostRates(model, found) ==
  IF found THEN [input |-> 2000, output |-> 8000]
  ELSE CASE model = "claude-opus-4-5-20251101" -> [input |-> 1500, output |-> 7500]
         [] model = "claude-sonnet-4-20250514" -> [input |-> 300, output |-> 1500]
         [] model = "gpt-5.1" -> [input |-> 1000, output |-> 3000]
         [] model = "gemini-3-pro-preview" -> [input |-> 125, output |-> 500]
         [] OTHER -> [input |-> 1000, output |-> 3000]

\* the TokenUsage record of track_usage
TokenUsage(model, msgs, input_text, output_text, found) ==
  LET i == IF msgs # << >> THEN count_messages(msgs) ELSE count_tokens(input_text)
      o == count_tokens(output_text)
      r == CostRates(model, found)
  IN  [input_tokens |-> i, output_tokens |-> o, total_tokens |-> i + o,
       cost |-> i * r.input + o * r.output]

\* SessionUsage.add that takes the output tokens for the total
SessionAddOutputAsTotal(su, u) ==
  [total_input_tokens |-> su.total_input_tokens + u.input_tokens,
   total_output_tokens |-> su.total_output_tokens + u.output_tokens,
   total_tokens |-> su.total_tokens + u.output_tokens,
   total_cost |-> su.total_cost + u.cost,
   message_count |-> su.message_count + 1]

\* SessionUsage.add
SessionAdd(su, u) ==
  [total_input_tokens |-> su.total_input_tokens + u.input_tokens,
   total_output_tokens |-> su.total_output_tokens + u.output_tokens,
   total_tokens |-> su.total_tokens + u.total_tokens,
   total_cost |-> su.total_cost + u.cost,
   message_count |-> su.message_count + 1]

(* --------------------------- process_chat ----------------------------- *)

\* the dispatch loop's chat branch: asyncio.create_task(process_chat(...));
\* epoch is the history at that moment
NewTurn(w, message, atts) ==
  [conn |-> w, provider |-> conn[w].provider, message |-> message,
   attachments |-> atts, pc |-> "start", outcome |-> "running",
   text |-> << >>, multimodal |-> NoContent, messages |-> << >>,
   full_response |-> << >>, actual_provider |-> conn[w].provider, llm |-> None,
   failure |-> None, n_primary |-> 0, n_backup |-> 0, target |-> None,
   usage |-> NoTokenUsage, epoch |-> events, search |-> None, rag |-> None,
   attempts |-> 0, transient |-> FALSE, completed |-> FALSE, repo_failed |-> FALSE,
   backup_messages |-> << >>]

\* message texts of the chat event that starts turn t: a text, "" and " "
MessageOptions(t) == { << Tok("msg", t, 0) >>, << >>, << Tok("ws", t, 0) >> }

\* the chat branch with await process_chat(...) in place of create_task:
\* the loop does not come back to receive_json
ChatEventAwaitsTurn(w, message, atts) ==
  /\ conn[w].state = "open"
  /\ conn[w].loop = "recv"
  /\ turns' = Append(turns, NewTurn(w, message, atts))
  /\ out' = Append(out, << >>)
  /\ conn' = [conn EXCEPT ![w].loop = "chat"]
  /\ UNCHANGED << active_connections, conversation_history,
                  current_conversation_id, db, sessions, sent, deleting, events,
                  routerVars, fb, user_ratings >>

ChatEvent(w, message, atts) ==
  /\ conn[w].state = "open"
  /\ conn[w].loop = "recv"
  /\ turns' = Append(turns, NewTurn(w, message, atts))
  /\ out' = Append(out, << >>)
  /\ UNCHANGED << conn, active_connections, conversation_history,
                  current_conversation_id, db, sessions, sent, deleting, events,
                  routerVars, fb, user_ratings >>

Finished(tr, how) == [tr EXCEPT !.pc = "done", !.outcome = how]

\* process_chat from its first line to the user message being built: an
\* empty message without attachments is answered with an error; else the
\* web search and the retrieval are made (search and rag are what they come
\* to) and their contexts put before the text.  The two services touch no
\* state of the orchestrator, so the stage is one step.
TurnBegin(t, search, rag) ==
  /\ turns[t].pc = "start"
  /\ LET tr == turns[t]
         c  == PrependContext(BuildMessageContent(tr.message, tr.attachments),
                              SearchContext(t, search), RagContext(t, rag))
     IN  IF IsBlank(tr.message) /\ tr.attachments = << >>
         THEN /\ out' = safe_send(out, tr.conn, t, Event("error", tr.provider, t))
              /\ turns' = [turns EXCEPT ![t] = Finished(tr, "rejected")]
         ELSE /\ turns' = [turns EXCEPT ![t] = [tr EXCEPT !.pc = "append",
                                !.text = c.text, !.multimodal = c.multimodal,
                                !.search = search, !.rag = rag]]
              /\ out' = SendAll(out, tr.conn, t,
                                ContextEvents(tr.provider, t, search, rag))
  /\ UNCHANGED << conn, active_connections, conversation_history,
                  current_conversation_id, db, sessions, deleting, events,
                  routerVars, fb, user_ratings, sent >>

\* the append that stores the multimodal form when the turn has one
AppendUserStoresMultimodal(t) ==
  /\ turns[t].pc = "append"
  /\ conversation_history' =
       IF turns[t].multimodal # NoContent
       THEN TrimHistory(Append(conversation_history, HumanMessage(turns[t].multimodal)))
       ELSE AppendUserMessage(conversation_history, turns[t].text)
  /\ turns' = [turns EXCEPT ![t] =
                 IF current_conversation_id = None
                 THEN [@ EXCEPT !.pc = "create"]
                 ELSE [@ EXCEPT !.pc = "save_user", !.target = current_conversation_id]]
  /\ events' = IF Len(conversation_history) + 1 > MAX_HISTORY_MESSAGES
                THEN [events EXCEPT !.trim = @ + 1] ELSE events
  /\ UNCHANGED << conn, active_connections, current_conversation_id, db, sessions,
                  sent, deleting, routerVars, fb, user_ratings, out >>

\* the user message is appended, the log trimmed, and the conversation id
\* looked at: a conversation is created when there is none
AppendUser(t) ==
  /\ turns[t].pc = "append"
  /\ conversation_history' = AppendUserMessage(conversation_history, turns[t].text)
  /\ turns' = [turns EXCEPT ![t] =
                 IF current_conversation_id = None
                 THEN [@ EXCEPT !.pc = "create"]
                 ELSE [@ EXCEPT !.pc = "save_user", !.target = current_conversation_id]]
  /\ events' = IF Len(conversation_history) + 1 > MAX_HISTORY_MESSAGES
                THEN [events EXCEPT !.trim = @ + 1] ELSE events
  /\ UNCHANGED << conn, active_connections, current_conversation_id, db, sessions,
                  sent, deleting, routerVars, fb, user_ratings, out >>

\* the id create_conversation gives to the k-th conversation it creates
ConversationId(k) == "n" \o ToString(k)

\* create_conversation returned: a new conversation (its id becomes the
\* current one, conversation_created is sent) or None on a repository error
CreateConversation(t, fails) ==
  /\ turns[t].pc = "create"
  /\ LET tr  == turns[t]
         id  == ConversationId(events.created + 1)
         cur == IF fails THEN current_conversation_id ELSE id
     IN  /\ current_conversation_id' = cur
         /\ IF fails
            THEN UNCHANGED << db, events, out >>
            ELSE /\ db' = db @@ (id :> << >>)
                 /\ events' = [events EXCEPT !.created = @ + 1]
                 /\ out' = safe_send(out, tr.conn, t,
                              [Event("conversation_created", tr.provider, t)
                                 EXCEPT !.conversation_id = id])
         /\ turns' = [turns EXCEPT ![t] =
                        IF cur = None
                        THEN [tr EXCEPT !.pc = "build", !.repo_failed = @ \/ fails]
                        ELSE [tr EXCEPT !.pc = "save_user", !.target = cur,
                                        !.repo_failed = @ \/ fails]]
  /\ UNCHANGED << conn, active_connections, conversation_history, sessions,
                  deleting, routerVars, fb, user_ratings, sent >>

\* add_message(role="user") returned: the row is stored unless the
\* repository failed
SaveUser(t, fails) ==
  /\ turns[t].pc = "save_user"
  /\ db' = IF fails THEN db ELSE add_message(db, turns[t].target, "user", turns[t].text)
  /\ turns' = [turns EXCEPT ![t].pc = "build", ![t].repo_failed = @ \/ fails]
  /\ UNCHANGED << conn, active_connections, conversation_history,
                  current_conversation_id, sessions, sent, deleting, events,
                  routerVars, fb, user_ratings, out >>

\* a request made of the system prompt and the newest message only
BuildMessagesNewestOnly(h, multimodal) ==
  << SystemMessage(TextContent(SYSTEM_PROMPT)) >>
    \o (IF multimodal # NoContent THEN << HumanMessage(multimodal) >>
        ELSE IF h = << >> THEN << >> ELSE << h[Len(h)] >>)

\* the message list of the request: the system prompt and the log, the last
\* message replaced by the multimodal form when there is one
BuildMessages(h, multimodal) ==
  IF multimodal # NoContent
  THEN << SystemMessage(TextContent(SYSTEM_PROMPT)) >> \o SubSeq(h, 1, Len(h) - 1)
         \o << HumanMessage(multimodal) >>
  ELSE << SystemMessage(TextContent(SYSTEM_PROMPT)) >> \o h

\* break in place of return: the text streamed so far goes to the log
AbandonKeepsPartial(t, tr) ==
  /\ turns' = [turns EXCEPT ![t] = Finished(tr, "abandoned")]
  /\ conversation_history' =
       IF tr.full_response # << >>
       THEN AppendAssistantMessage(conversation_history, tr.full_response)
       ELSE conversation_history
  /\ UNCHANGED << out, sessions >>

\* an abandonment that takes the newest message off the log again
AbandonRollsBack(t, tr) ==
  /\ turns' = [turns EXCEPT ![t] = Finished(tr, "abandoned")]
  /\ conversation_history' =
       SubSeq(conversation_history, 1, Len(conversation_history) - 1)
  /\ UNCHANGED << out, sessions >>

\* return after is_ws_connected said no: the turn ends there, nothing is
\* sent, appended or counted
Abandon(t, tr) ==
  /\ turns' = [turns EXCEPT ![t] = Finished(tr, "abandoned")]
  /\ UNCHANGED << out, conversation_history, sessions >>

\* the except branch without the backup_switch message
OnStreamErrorUnannounced(t, tr) ==
  IF ~is_ws_connected(tr.conn)
  THEN Abandon(t, tr)
  ELSE LET b == TryBackup(backup_chain, tr.provider)
       IN  /\ UNCHANGED << conversation_history, sessions >>
           /\ IF b.ok
              THEN /\ turns' = [turns EXCEPT ![t] =
                                  [tr EXCEPT !.pc = "backup", !.llm = b.llm,
                                             !.actual_provider = ClientLabel(b.llm)]]
                   /\ out' = out
              ELSE /\ turns' = [turns EXCEPT ![t] = Finished(tr, "error")]
                   /\ out' = safe_send(out, tr.conn, t, Event("error", tr.provider, t))

\* the except branch naming the requested provider as the backup
OnStreamErrorNamesRequested(t, tr) ==
  IF ~is_ws_connected(tr.conn)
  THEN Abandon(t, tr)
  ELSE LET b == TryBackup(backup_chain, tr.provider)
       IN  /\ UNCHANGED << conversation_history, sessions >>
           /\ IF b.ok
              THEN /\ turns' = [turns EXCEPT ![t] =
                                  [tr EXCEPT !.pc = "backup", !.llm = b.llm,
                                             !.actual_provider = ClientLabel(b.llm)]]
                   /\ out' = safe_send(out, tr.conn, t,
                                [Event("backup_switch", None, t)
                                   EXCEPT !.original_provider = tr.provider,
                                          !.backup_provider = tr.provider])
              ELSE /\ turns' = [turns EXCEPT ![t] = Finished(tr, "error")]
                   /\ out' = safe_send(out, tr.conn, t, Event("error", tr.provider, t))

\* the except branch that goes on to the complete message when the chain
\* is exhausted
OnStreamErrorThenComplete(t, tr) ==
  IF ~is_ws_connected(tr.conn)
  THEN Abandon(t, tr)
  ELSE LET b == TryBackup(backup_chain, tr.provider)
       IN  /\ UNCHANGED << conversation_history, sessions >>
           /\ IF b.ok
              THEN /\ turns' = [turns EXCEPT ![t] =
                                  [tr EXCEPT !.pc = "backup", !.llm = b.llm,
                                             !.actual_provider = ClientLabel(b.llm)]]
                   /\ out' = safe_send(out, tr.conn, t,
                                [Event("backup_switch", None, t)
                                   EXCEPT !.original_provider = tr.provider,
                                          !.backup_provider = ClientLabel(b.llm)])
              ELSE /\ turns' = [turns EXCEPT ![t] = Finished(tr, "error")]
                   /\ out' = safe_send(safe_send(out, tr.conn, t, Event("error", tr.provider, t)),
                                tr.conn, t, Event("complete", tr.provider, t))

\* the except branch that builds the list for the backup anew from the log
OnStreamErrorRebuilds(t, tr) ==
  IF ~is_ws_connected(tr.conn)
  THEN Abandon(t, tr)
  ELSE LET b == TryBackup(backup_chain, tr.provider)
       IN  /\ UNCHANGED << conversation_history, sessions >>
           /\ IF b.ok
              THEN /\ turns' = [turns EXCEPT ![t] =
                                  [tr EXCEPT !.pc = "backup", !.llm = b.llm,
                                             !.actual_provider = ClientLabel(b.llm),
                                             !.backup_messages =
                                                BuildMessages(conversation_history,
                                                              tr.multimodal)]]
                   /\ out' = safe_send(out, tr.conn, t,
                                [Event("backup_switch", None, t)
                                   EXCEPT !.original_provider = tr.provider,
                                          !.backup_provider = ClientLabel(b.llm)])
              ELSE /\ turns' = [turns EXCEPT ![t] = Finished(tr, "error")]
                   /\ out' = safe_send(out, tr.conn, t, Event("error", tr.provider, t))

\* the except branch of the streaming loop: nothing when the socket is
\* closed, else _try_backup and the backup_switch message, or the error
\* message when _try_backup raises; backup_provider.astream(messages) is
\* entered with the list of the turn
OnStreamError(t, tr) ==
  IF ~is_ws_connected(tr.conn)
  THEN Abandon(t, tr)
  ELSE LET b == TryBackup(backup_chain, tr.provider)
       IN  /\ UNCHANGED << conversation_history, sessions >>
           /\ IF b.ok
              THEN /\ turns' = [turns EXCEPT ![t] =
                                  [tr EXCEPT !.pc = "backup", !.llm = b.llm,
                                             !.actual_provider = ClientLabel(b.llm),
                                             !.backup_messages = tr.messages]]
                   /\ out' = safe_send(out, tr.conn, t,
                                [Event("backup_switch", None, t)
                                   EXCEPT !.original_provider = tr.provider,
                                          !.backup_provider = ClientLabel(b.llm)])
              ELSE /\ turns' = [turns EXCEPT ![t] = Finished(tr, "error")]
                   /\ out' = safe_send(out, tr.conn, t, Event("error", tr.provider, t))

\* the request is built from the log as it is now and llm_router.astream is
\* entered: get_llm gives the client, or raises
OpenStream(t) ==
  /\ turns[t].pc = "build"
  /\ LET g  == GetLLM(backup_chain, turns[t].provider)
         tr == [turns[t] EXCEPT
                  !.messages = BuildMessages(conversation_history, turns[t].multimodal)]
     IN  IF g.ok
         THEN /\ turns' = [turns EXCEPT ![t] = [tr EXCEPT !.pc = "primary", !.llm = g.llm,
                                                           !.attempts = 1]]
              /\ UNCHANGED << out, conversation_history, sessions >>
         ELSE OnStreamError(t, [tr EXCEPT !.failure = "get_llm"])
  /\ UNCHANGED << conn, active_connections, current_conversation_id, db, deleting,
                  events, routerVars, fb, user_ratings, sent >>

\* the streaming loop that puts the message of each chunk before the
\* messages sent so far
PrimaryChunkOutOfOrder(t) ==
  /\ turns[t].pc = "primary"
  /\ turns[t].n_primary < MaxChunks
  /\ LET tr    == turns[t]
         chunk == << Tok("primary", t, tr.n_primary + 1) >>
     IN  IF ~is_ws_connected(tr.conn)
         THEN Abandon(t, tr)
         ELSE /\ turns' = [turns EXCEPT ![t] =
                             [tr EXCEPT !.n_primary = @ + 1,
                                        !.full_response = @ \o chunk]]
              /\ out' = [out EXCEPT ![t] =
                           << [Event("streaming", tr.actual_provider, t)
                                 EXCEPT !.chunk = chunk] >> \o @]
              /\ UNCHANGED << conversation_history, sessions >>
  /\ UNCHANGED << conn, active_connections, current_conversation_id, db, deleting,
                  events, routerVars, fb, user_ratings, sent >>

\* llm_router.astream yields its next chunk (never an empty one)
PrimaryChunk(t) ==
  /\ turns[t].pc = "primary"
  /\ turns[t].n_primary < MaxChunks
  /\ LET tr    == turns[t]
         chunk == << Tok("primary", t, tr.n_primary + 1) >>
     IN  IF ~is_ws_connected(tr.conn)
         THEN Abandon(t, tr)
         ELSE /\ turns' = [turns EXCEPT ![t] =
                             [tr EXCEPT !.n_primary = @ + 1,
                                        !.full_response = @ \o chunk]]
              /\ out' = safe_send(out, tr.conn, t,
                           [Event("streaming", tr.actual_provider, t)
                              EXCEPT !.chunk = chunk])
              /\ UNCHANGED << conversation_history, sessions >>
  /\ UNCHANGED << conn, active_connections, current_conversation_id, db, deleting,
                  events, routerVars, fb, user_ratings, sent >>

\* create_llm_retry(max_attempts=3)
max_attempts == 3

\* what the stream of a provider raises: a rate-limit error of
\* RATE_LIMIT_EXCEPTIONS, or any other exception
ErrorKinds == {"rate_limit", "other"}

\* the stream of the requested provider raises.  llm_retry decorates the
\* async generator function astream: the decorated call returns the
\* generator without running its body, so the exception is raised while
\* process_chat iterates, outside the retry loop, and reaches the except
\* branch of process_chat at once, whatever its kind
PrimaryRaise(t, kind) ==
  /\ turns[t].pc = "primary"
  /\ OnStreamError(t, [turns[t] EXCEPT !.failure = "stream",
                                       !.transient = (kind = "rate_limit")])
  /\ UNCHANGED << conn, active_connections, current_conversation_id, db, deleting,
                  events, routerVars, fb, user_ratings, sent >>

\* chunk contents of a backup client that yields strings: text or ""
StringKinds == {"text", "empty"}

\* chunk contents the raw stream of the backup client yields: a string, or
\* a list of content blocks
BackupChunkKinds == StringKinds \cup {"blocks"}

\* backup_provider.astream yields its next chunk: content that is a str is
\* added to the response and sent; other content is sent as str(content)
\* and not added
BackupChunk(t, kind) ==
  /\ turns[t].pc = "backup"
  /\ turns[t].n_backup < MaxChunks
  /\ LET tr   == turns[t]
         i    == tr.n_backup + 1
         add  == IF kind = "text" THEN << Tok("backup", t, i) >> ELSE << >>
         text == IF kind = "blocks" THEN << Tok("repr", t, i) >> ELSE add
     IN  IF ~is_ws_connected(tr.conn)
         THEN Abandon(t, tr)
         ELSE /\ turns' = [turns EXCEPT ![t] =
                             [tr EXCEPT !.n_backup = i, !.full_response = @ \o add]]
              /\ out' = safe_send(out, tr.conn, t,
                           [Event("streaming", tr.actual_provider, t)
                              EXCEPT !.chunk = text])
              /\ UNCHANGED << conversation_history, sessions >>
  /\ UNCHANGED << conn, active_connections, current_conversation_id, db, deleting,
                  events, routerVars, fb, user_ratings, sent >>

\* a failure of the backup stream that ends the turn without a message
BackupRaiseSilent(t) ==
  /\ turns[t].pc = "backup"
  /\ turns' = [turns EXCEPT ![t] = Finished(@, "error")]
  /\ UNCHANGED << conn, active_connections, conversation_history,
                  current_conversation_id, db, sessions, deleting, events,
                  routerVars, fb, user_ratings, sent, out >>

\* the backup stream raises: the outer except sends the error message
BackupRaise(t) ==
  /\ turns[t].pc = "backup"
  /\ turns' = [turns EXCEPT ![t] = Finished(@, "error")]
  /\ out' = safe_send(out, turns[t].conn, t, Event("error", turns[t].provider, t))
  /\ UNCHANGED << conn, active_connections, conversation_history,
                  current_conversation_id, db, sessions, deleting, events,
                  routerVars, fb, user_ratings, sent >>

\* a stream ends without an exception: a non-empty response is appended to
\* the log and track_usage counts its tokens, which ends the turn with the
\* error message when the count raises; an empty response goes straight to
\* complete
StreamEnd(t) ==
  /\ turns[t].pc \in {"primary", "backup"}
  /\ LET tr == turns[t]
         end == [tr EXCEPT !.completed = TRUE]
     IN  IF tr.full_response # << >> /\ CountRaises(tr.messages)
         THEN /\ conversation_history' =
                   AppendAssistantMessage(conversation_history, tr.full_response)
              /\ turns' = [turns EXCEPT ![t] = Finished(end, "error")]
              /\ out' = safe_send(out, tr.conn, t, Event("error", tr.provider, t))
         ELSE IF tr.full_response # << >>
         THEN /\ conversation_history' =
                   AppendAssistantMessage(conversation_history, tr.full_response)
              /\ turns' = [turns EXCEPT ![t] = [end EXCEPT !.pc = "track"]]
              /\ UNCHANGED out
         ELSE /\ turns' = [turns EXCEPT ![t] = Finished(end, "complete")]
              /\ out' = safe_send(out, tr.conn, t, Event("complete", tr.actual_provider, t))
              /\ UNCHANGED conversation_history
  /\ UNCHANGED << conn, active_connections, current_conversation_id, db, sessions,
                  deleting, events, routerVars, fb, user_ratings, sent >>

\* the usage and complete messages that end a turn with a response
SendUsageAndComplete(s, ses, tr, t, cid) ==
  safe_send(
    safe_send(s, tr.conn, t,
      [Event("usage", tr.actual_provider, t)
         EXCEPT !.message = tr.usage, !.session = ses[tr.conn], !.conversation_id = cid]),
    tr.conn, t, Event("complete", tr.actual_provider, t))

\* track_usage after the rate lookup returned (found: the rate table has
\* the model): the record is added to the session's totals
TrackUsage(t, found) ==
  /\ turns[t].pc = "track"
  /\ LET tr  == turns[t]
         u   == TokenUsage(ModelOf(tr.actual_provider), tr.messages, tr.message,
                           tr.full_response, found)
         ses == [get_session(sessions, tr.conn) EXCEPT ![tr.conn] = SessionAdd(@, u)]
         now == [tr EXCEPT !.usage = u]
     IN  /\ sessions' = ses
         /\ events' = [events EXCEPT !.ledger[tr.conn] = Append(@, u)]
         /\ IF current_conversation_id # None
            THEN /\ turns' = [turns EXCEPT ![t] =
                                [now EXCEPT !.pc = "save_asst",
                                            !.target = current_conversation_id]]
                 /\ UNCHANGED out
            ELSE /\ turns' = [turns EXCEPT ![t] = Finished(now, "complete")]
                 /\ out' = SendUsageAndComplete(out, ses, now, t, current_conversation_id)
  /\ UNCHANGED << conn, active_connections, conversation_history,
                  current_conversation_id, db, deleting, routerVars, fb, user_ratings,
                  sent >>

\* add_message(role="assistant") returned; usage and complete are sent
SaveAssistant(t, fails) ==
  /\ turns[t].pc = "save_asst"
  /\ LET tr  == turns[t]
         ses == get_session(sessions, tr.conn)
     IN  /\ db' = IF fails THEN db
                  ELSE add_message(db, tr.target, "assistant", tr.full_response)
         /\ sessions' = ses
         /\ turns' = [turns EXCEPT ![t] =
                        Finished([tr EXCEPT !.repo_failed = @ \/ fails], "complete")]
         /\ out' = SendUsageAndComplete(out, ses, tr, t, current_conversation_id)
  /\ UNCHANGED << conn, active_connections, conversation_history,
                  current_conversation_id, deleting, events, routerVars, fb,
                  user_ratings, sent >>

(* --------------------------- specifications -------------------------- *)

Turns == 1..Len(turns)

\* no process_chat task is running
Idle == \A t \in Turns : turns[t].pc = "done"

\* the steps of a process_chat task after its context stage, on a
\* repository that does not fail
TurnRest ==
  \/ \E t \in Turns : AppendUser(t)
  \/ \E t \in Turns : CreateConversation(t, FALSE)
  \/ \E t \in Turns : SaveUser(t, FALSE)
  \/ \E t \in Turns : OpenStream(t)
  \/ \E t \in Turns : PrimaryChunk(t)
  \/ \E t \in Turns : StreamEnd(t)
  \/ \E t \in Turns, found \in BOOLEAN : TrackUsage(t, found)
  \/ \E t \in Turns : SaveAssistant(t, FALSE)

\* the steps of the process_chat tasks when the messages carry no search
\* intent and retrieval is switched off
TurnStep ==
  \/ \E t \in Turns : TurnBegin(t, "no_intent", "disabled")
  \/ TurnRest

\* the steps of a failing stream and of a backup stream whose chunks are of
\* the given kinds
FallbackStepWith(kinds) ==
  \/ \E t \in Turns, kind \in ErrorKinds : PrimaryRaise(t, kind)
  \/ \E t \in Turns, kind \in kinds : BackupChunk(t, kind)
  \/ \E t \in Turns : BackupRaise(t)

\* the steps of a failing stream and of a backup stream that yields strings
FallbackStep == FallbackStepWith(StringKinds)

\* the requests that empty or replace the log are not used up
ResetLeft == events.clear + events.load + events.delete < MaxResets

\* The requests that replace or empty the shared log, received at any
\* moment of a turn, for the clients ws.
ResetStep(ws) ==
  \/ \E w \in ws : ResetLeft /\ ClearHistory(w)
  \/ \E w \in ws, cid \in LoadIds : ResetLeft /\ LoadRequest(w, cid, FALSE)
  \/ \E w \in ws : LoadApply(w)
  \/ \E cid \in DOMAIN db : ResetLeft /\ DeleteRequest(cid, FALSE)
  \/ DeleteApply

\* a client sends the next chat event, with one of the attachment lists
\* options, when no turn is running
NextChatWith(ws, max, options) ==
  \E w \in ws, atts \in options :
    \E m \in MessageOptions(Len(turns) + 1) :
      Len(turns) < max /\ Idle /\ ChatEvent(w, m, atts)

NextChat(ws, max) == NextChatWith(ws, max, AttachmentOptions)

\* The conversation scenario: one client on a working backend, its chat
\* turns, and the requests that replace or empty the log.
Next ==
  \/ \E w \in OneClient, p \in ProviderKeys : Connect(w, p)
  \/ ResetStep(OneClient)
  \/ NextChat(OneClient, MaxTurns)
  \/ TurnStep

InitConversation ==
  /\ Init
  /\ backup_chain = DefaultChain
  /\ api_keys = {"anthropic"}

Spec == InitConversation /\ [][Next]_vars

\* The shared-log scenario: two clients on a working backend that chat one
\* turn after the other, and the requests that replace or empty the log.
NextShared ==
  \/ \E w \in Conns, p \in ProviderKeys : Connect(w, p)
  \/ ResetStep(Conns)
  \/ NextChat(Conns, MaxSharedTurns)
  \/ TurnStep

SpecShared == InitConversation /\ [][NextShared]_vars

\* The streaming scenario: every configuration of chain and keys, one client
\* that connects, chats and disconnects at any time, and backends whose
\* streams may fail.
NextStream ==
  \/ \E w \in OneClient, p \in ProviderKeys : Connect(w, p)
  \/ \E w \in OneClient : Disconnect(w)
  \/ NextChat(OneClient, MaxTurns)
  \/ TurnStep
  \/ FallbackStep

SpecStream == Init /\ [][NextStream]_vars

\* The context scenario: the shipped chain, one client whose chat events may
\* carry an image, every outcome of the web search and of the retrieval,
\* and a backend whose stream may fail.
NextContext ==
  \/ \E w \in OneClient, p \in ProviderKeys : Connect(w, p)
  \/ NextChatWith(OneClient, MaxTurns, UploadOptions)
  \/ \E t \in Turns, search \in SearchOutcomes, rag \in RagOutcomes :
       TurnBegin(t, search, rag)
  \/ TurnRest
  \/ \E t \in Turns : PrimaryRaise(t, "other")

InitContext ==
  /\ backup_chain = DefaultChain
  /\ api_keys = {"anthropic"}
  /\ encoding \in Encodings
  /\ InitChat

SpecContext == InitContext /\ [][NextContext]_vars

\* The termination scenario: every configuration of chain and keys, two
\* clients that connect between turns under any provider key and stay
\* connected, their turns one after the other, and backends whose streams may
\* fail.  The
\* event loop runs a task that can take a step: every stream and every call
\* a turn waits for returns, and a stream has at most MaxChunks chunks.
TurnProgress == TurnStep \/ FallbackStep

NextTurns ==
  \/ \E w \in Conns, p \in ProviderKeys : Idle /\ Connect(w, p)
  \/ NextChat(Conns, MaxTurns)
  \/ TurnStep
  \/ FallbackStep

SpecTurns == Init /\ [][NextTurns]_vars /\ WF_vars(TurnProgress)

\* a client sends the next chat event while earlier turns may be running:
\* the dispatch loop starts a task per chat event and goes back to receive
NextChatAnytime(ws, max, options) ==
  \E w \in ws, atts \in options :
    \E m \in MessageOptions(Len(turns) + 1) :
      Len(turns) < max /\ ChatEvent(w, m, atts)

\* The overlap scenario: one client on a working backend whose chat events,
\* with or without an image, follow one another without waiting for the
\* answer, and clear_history at any moment.
NextOverlap ==
  \/ \E w \in OneClient, p \in ProviderKeys : Connect(w, p)
  \/ \E w \in OneClient : ResetLeft /\ ClearHistory(w)
  \/ NextChatAnytime(OneClient, MaxSharedTurns, UploadOptions)
  \/ TurnStep

SpecOverlap == InitConversation /\ [][NextOverlap]_vars

\* The aftermath scenario: two clients on the shipped chain, whose only
\* usable provider is the requested one, chat one turn after the other; the
\* stream may fail and the clients disconnect at any moment.
NextAftermath ==
  \/ \E w \in Conns, p \in ProviderKeys : Connect(w, p)
  \/ \E w \in Conns : Disconnect(w)
  \/ NextChat(Conns, MaxSharedTurns)
  \/ TurnStep
  \/ \E t \in Turns, kind \in ErrorKinds : PrimaryRaise(t, kind)

SpecAftermath == InitConversation /\ [][NextAftermath]_vars

\* The clearing scenario: two clients on a working backend chat one turn
\* after the other and send clear_history at any moment.
NextClear ==
  \/ \E w \in Conns, p \in ProviderKeys : Connect(w, p)
  \/ \E w \in Conns : ResetLeft /\ ClearHistory(w)
  \/ NextChat(Conns, MaxSharedTurns)
  \/ TurnStep

SpecClear == InitConversation /\ [][NextClear]_vars

\* The loading scenario: one client on a working backend chats and sends
\* load_conversation, at any moment, for a stored or an unknown id, to a
\* repository whose lookup may fail.
NextLoad ==
  \/ \E w \in OneClient, p \in ProviderKeys : Connect(w, p)
  \/ \E w \in OneClient, cid \in LoadIds, fails \in BOOLEAN :
       ResetLeft /\ LoadRequest(w, cid, fails)
  \/ \E w \in OneClient : LoadApply(w)
  \/ NextChat(OneClient, MaxTurns)
  \/ TurnStep

SpecLoad == InitConversation /\ [][NextLoad]_vars

\* configured chains with a usable provider after the requested one: one,
\* behind a provider without a key, or two
FallbackChains ==
  { << "claude", "openai", "claude" >>, << "claude", "claude", "claude" >> }

\* The fallback scenario: a chain on which the backup of claude can be used,
\* one client, its turn with streams that may fail, a backup whose chunks
\* are strings or lists of blocks, and clear_history at any moment of the
\* turn.
InitFallback ==
  /\ backup_chain \in FallbackChains
  /\ api_keys = {"anthropic"}
  /\ encoding = "tiktoken"
  /\ InitChat

NextFallback ==
  \/ \E w \in OneClient, p \in ProviderKeys : Connect(w, p)
  \/ \E w \in OneClient : ResetLeft /\ ClearHistory(w)
  \/ NextChat(OneClient, MaxTurns)
  \/ TurnStep
  \/ FallbackStepWith(BackupChunkKinds)

SpecFallback == InitFallback /\ [][NextFallback]_vars

\* The repository scenario: the shipped chain, one client whose chat events
\* may carry an image, a backend that works, and a repository whose calls may
\* each fail.
NextRepository ==
  \/ \E w \in OneClient, p \in ProviderKeys : Connect(w, p)
  \/ NextChatWith(OneClient, MaxTurns, UploadOptions)
  \/ \E t \in Turns : TurnBegin(t, "no_intent", "disabled")
  \/ \E t \in Turns : AppendUser(t)
  \/ \E t \in Turns, fails \in BOOLEAN : CreateConversation(t, fails)
  \/ \E t \in Turns, fails \in BOOLEAN : SaveUser(t, fails)
  \/ \E t \in Turns : OpenStream(t)
  \/ \E t \in Turns : PrimaryChunk(t)
  \/ \E t \in Turns : StreamEnd(t)
  \/ \E t \in Turns, found \in BOOLEAN : TrackUsage(t, found)
  \/ \E t \in Turns, fails \in BOOLEAN : SaveAssistant(t, fails)

SpecRepository == InitContext /\ [][NextRepository]_vars

\* The session scenario: one client on a working backend that connects,
\* chats, rates, clears the log, sends a malformed frame or disconnects, at
\* any moment of a turn.
NextSession ==
  \/ \E w \in OneClient, p \in ProviderKeys : Connect(w, p)
  \/ \E w \in OneClient : Disconnect(w)
  \/ \E w \in OneClient : MalformedEvent(w)
  \/ \E w \in OneClient, m \in MessageIds, r \in Ratings :
       events.ratings < MaxRatings /\ Rating(w, m, r)
  \/ \E w \in OneClient : ResetLeft /\ ClearHistory(w)
  \/ NextChat(OneClient, MaxTurns)
  \/ TurnStep

SpecSession == InitConversation /\ [][NextSession]_vars

\* The usage scenario: one client on a working backend whose turns follow
\* one another, with clear_history and disconnect at any moment.
NextUsage ==
  \/ \E w \in OneClient, p \in ProviderKeys : Connect(w, p)
  \/ \E w \in OneClient : Disconnect(w)
  \/ \E w \in OneClient : ResetLeft /\ ClearHistory(w)
  \/ NextChat(OneClient, MaxSharedTurns)
  \/ TurnStep

SpecUsage == InitConversation /\ [][NextUsage]_vars

\* The registry scenario: two clients on a working backend that connect
\* under any key, also the same one, chat and disconnect at any moment.
NextRegistry ==
  \/ \E w \in Conns, p \in ProviderKeys : Connect(w, p)
  \/ \E w \in Conns : Disconnect(w)
  \/ NextChat(Conns, MaxTurns)
  \/ TurnStep

SpecRegistry == InitConversation /\ [][NextRegistry]_vars

\* The router scenario: _try_backup called once, for every chain of up to
\* MaxChain names, every set of keys and every failed name.
Chains == UNION { [1..k -> ChainNames] : k \in 0..MaxChain }

InitRouter ==
  /\ backup_chain \in Chains
  /\ api_keys \in SUBSET {"anthropic"}
  /\ encoding = "tiktoken"
  /\ InitChat

CallTryBackup(f) ==
  /\ fb.phase = "none"
  /\ LET b == TryBackup(backup_chain, f)
     IN  fb' = [phase |-> "returned", failed |-> f, ok |-> b.ok, llm |-> b.llm,
                attempts |-> b.attempts]
  /\ UNCHANGED << routerVars, chatVars >>

NextRouter == \E f \in FailedNames : CallTryBackup(f)

SpecRouter == InitRouter /\ [][NextRouter]_vars

\* The inputs of the calls made on the TokenCounter: message lists of up to
\* MaxTracked messages, and a rate table that has the model, has it not, or
\* fails.
TrackContents ==
  { TextContent(<< >>), TextContent(<< Tok("msg", 0, 1) >>),
    MultimodalContent(<< Tok("msg", 0, 1) >>, << "img" >>) }

TrackLists ==
  UNION { [1..k -> { HumanMessage(c) : c \in TrackContents }] : k \in 0..MaxTracked }

TrackTexts == { << >>, << Tok("msg", 0, 1) >> }

\* a model of llm.costs, and a model that is not configured
TrackModels == { "claude-sonnet-4-20250514", "unknown" }

Lookups == { "found", "missing", "fails" }

\* get_cost_by_model that lets the exception of a failing lookup out
GetCostByModelRaising(lookup) ==
  IF lookup = "found" THEN "row" ELSE IF lookup = "fails" THEN "raise" ELSE "none"

\* ModelCostRepository.get_cost_by_model with an empty cache: the row, or
\* None when there is none or the query raised
GetCostByModel(lookup) == IF lookup = "found" THEN "row" ELSE "none"

\* track_usage up to the TokenUsage record: raised when count_tokens or the
\* rate lookup raised
TrackUsageCall(model, msgs, input_text, output_text, lookup) ==
  IF (msgs # << >> /\ CountRaises(msgs)) \/ GetCostByModel(lookup) = "raise"
  THEN [raised |-> TRUE, usage |-> NoTokenUsage]
  ELSE [raised |-> FALSE,
        usage |-> TokenUsage(model, msgs, input_text, output_text,
                             GetCostByModel(lookup) = "row")]

CallTrackUsage(sid, model, msgs, input_text, output_text, lookup) ==
  /\ LET r == TrackUsageCall(model, msgs, input_text, output_text, lookup)
     IN  /\ sessions' = IF r.raised THEN sessions
                        ELSE [get_session(sessions, sid) EXCEPT ![sid] = SessionAdd(@, r.usage)]
         /\ fb' = [phase |-> "track_usage", session |-> sid, model |-> model,
                   msgs |-> msgs, input_text |-> input_text,
                   output_text |-> output_text, lookup |-> lookup,
                   raised |-> r.raised, usage |-> r.usage]
  /\ UNCHANGED << conn, active_connections, conversation_history,
                  current_conversation_id, db, turns, sent, out, deleting, events,
                  user_ratings, routerVars >>

\* the fb record of a call that takes a session id only
SessionCall(phase, sid) ==
  [phase |-> phase, session |-> sid, model |-> None, msgs |-> << >>,
   input_text |-> << >>, output_text |-> << >>, lookup |-> None, raised |-> FALSE,
   usage |-> NoTokenUsage]

CallResetSession(sid) ==
  /\ sessions' = reset_session(sessions, sid)
  /\ fb' = SessionCall("reset_session", sid)
  /\ UNCHANGED << conn, active_connections, conversation_history,
                  current_conversation_id, db, turns, sent, out, deleting, events,
                  user_ratings, routerVars >>

CallRemoveSession(sid) ==
  /\ sessions' = remove_session(sessions, sid)
  /\ fb' = SessionCall("remove_session", sid)
  /\ UNCHANGED << conn, active_connections, conversation_history,
                  current_conversation_id, db, turns, sent, out, deleting, events,
                  user_ratings, routerVars >>

\* session sid has no usage record
Unused(sid) == IF sid \in DOMAIN sessions THEN sessions[sid] = ZeroUsage ELSE TRUE

\* The tracker scenario: track_usage called with every input for a session
\* that has no record yet, and reset_session and remove_session, under both
\* ways of counting.
NextTracker ==
  \/ \E sid \in OneClient, model \in TrackModels, msgs \in TrackLists,
        input_text \in TrackTexts, output_text \in TrackTexts, lookup \in Lookups :
       Unused(sid) /\ CallTrackUsage(sid, model, msgs, input_text, output_text, lookup)
  \/ \E sid \in OneClient : CallResetSession(sid)
  \/ \E sid \in OneClient : CallRemoveSession(sid)

InitTracker ==
  /\ backup_chain = DefaultChain
  /\ api_keys = {"anthropic"}
  /\ encoding \in Encodings
  /\ InitChat

SpecTracker == InitTracker /\ [][NextTracker]_vars

\* the requests of the sessions scenario: one or two plain messages
SessionLists ==
  { << HumanMessage(TextContent(<< Tok("msg", 0, 1) >>)) >>,
    << HumanMessage(TextContent(<< >>)), HumanMessage(TextContent(<< Tok("msg", 0, 1) >>)) >> }

\* The sessions scenario: two session ids with up to MaxCalls usage records
\* each between resets, and reset_session and remove_session called for
\* either id at any time.
NextSessions ==
  \/ \E sid \in Conns, msgs \in SessionLists :
       /\ get_session(sessions, sid)[sid].message_count < MaxCalls
       /\ CallTrackUsage(sid, "unknown", msgs, << >>, << Tok("primary", 0, 1) >>, "missing")
  \/ \E sid \in Conns : CallResetSession(sid)
  \/ \E sid \in Conns : CallRemoveSession(sid)

SpecSessions == InitConversation /\ [][NextSessions]_vars

(* ------------------------- the conversation log ----------------------- *)

\* the last n elements of s
LastN(s, n) == [i \in 1..n |-> s[Len(s) - n + i]]

\* the last message delivered by the dispatch loop of w
LastSent(w) == sent[w][Len(sent[w])]

\* C1: in every reachable state the shared conversation log holds at most
\* MAX_HISTORY_MESSAGES messages.
C1_LogWithinCap == Len(conversation_history) <= MAX_HISTORY_MESSAGES

\* C2: the step of a turn that appends its user message m to the log L leaves
\* the last min(|L| + 1, MAX_HISTORY_MESSAGES) elements of L followed by m, in
\* their order, with m last.
C2_AppendKeepsNewest ==
  [][\A t \in Turns :
       (turns[t].pc = "append" /\ turns'[t].pc # "append") =>
         LET m    == HumanMessage(TextContent(turns[t].text))
             full == conversation_history \o << m >>
             n    == Min(Len(conversation_history) + 1, MAX_HISTORY_MESSAGES)
         IN  /\ conversation_history' = LastN(full, n)
             /\ conversation_history'[Len(conversation_history')] = m]_vars

\* a turn has just appended its user message to a full log: the oldest
\* message of the loaded conversation is gone, the second is now the first
C2_TrimmedAppendReached ==
  \E t \in Turns :
    /\ turns[t].pc \in {"create", "save_user"}
    /\ events.trim = 1
    /\ Len(conversation_history) = MAX_HISTORY_MESSAGES
    /\ conversation_history[MAX_HISTORY_MESSAGES] = HumanMessage(TextContent(turns[t].text))
    /\ conversation_history[1] = AIMessage(TextContent(<< Tok("db", 0, 2) >>))

\* C4: the step that handles clear_history leaves the log empty, the current
\* conversation id unset and every total of the requesting session zero, and
\* the history_cleared message it sends carries those zero totals.
C4_ClearResetsAll ==
  [][\A w \in Conns :
       (events'.clear = events.clear + 1 /\ events'.clear_by = w) =>
         /\ conversation_history' = << >>
         /\ current_conversation_id' = None
         /\ w \in DOMAIN sessions'
         /\ sessions'[w] = ZeroUsage
         /\ Len(sent'[w]) = Len(sent[w]) + 1
         /\ sent'[w][Len(sent'[w])].type = "history_cleared"
         /\ sent'[w][Len(sent'[w])].session = ZeroUsage]_vars

\* clear_history was handled for a session whose turn had recorded usage
\* and filled the log before
C4_ClearAfterUsageReached ==
  \E w \in Conns, t \in Turns :
    /\ events.clear_by = w
    /\ events.clear_turns = Len(turns)
    /\ turns[t].conn = w
    /\ turns[t].outcome = "complete"
    /\ turns[t].usage # NoTokenUsage
    /\ turns[t].usage.total_tokens > 0
    /\ sessions[w] = ZeroUsage
    /\ conversation_history = << >>
    /\ LastSent(w).type = "history_cleared"

\* C5: from the handling of clear_history until the next chat or
\* load_conversation event is received, the log is empty and the totals of
\* the session that cleared are zero.
C5_ClearedUntilNextEvent ==
  (/\ events.clear_by # None
   /\ events.clear_turns = Len(turns)
   /\ events.clear_loads = events.load)
  => /\ conversation_history = << >>
     /\ events.clear_by \in DOMAIN sessions
     /\ sessions[events.clear_by] = ZeroUsage

\* turn a has completed with a response and the request of the later turn b
\* has been built
CompletedBefore(a, b) ==
  /\ a < b
  /\ turns[a].outcome = "complete"
  /\ turns[a].full_response # << >>
  /\ turns[b].messages # << >>

\* the request of turn b holds the user and the assistant message of turn a,
\* in that order, before the user message of b, which is its last
CarriesTurn(a, b) ==
  LET msgs == turns[b].messages
      own  == IF turns[b].multimodal # NoContent THEN turns[b].multimodal
              ELSE TextContent(turns[b].text)
  IN  /\ msgs[Len(msgs)] = HumanMessage(own)
      /\ \E i \in 1..Len(msgs) :
           /\ msgs[i] = HumanMessage(TextContent(turns[a].text))
           /\ \E j \in (i + 1)..(Len(msgs) - 1) :
                msgs[j] = AIMessage(TextContent(turns[a].full_response))

\* since turn a was submitted no clear_history was handled, no conversation
\* loaded and no message cut off by the cap
NoClearLoadTrimSince(a) ==
  /\ events.clear = turns[a].epoch.clear
  /\ events.loaded = turns[a].epoch.loaded
  /\ events.trim = turns[a].epoch.trim

\* C3 as stated: a completed turn a, a later turn b, and no clear_history,
\* load_conversation or cap truncation since a was submitted: the request of
\* b carries the user and assistant messages of a before its own.
C3_LaterTurnCarriesEarlier ==
  \A a \in Turns, b \in Turns :
    (CompletedBefore(a, b) /\ NoClearLoadTrimSince(a)) => CarriesTurn(a, b)

\* C3 amended: the same when, in addition, no DELETE of the current
\* conversation has emptied the log since a was submitted.
C3_LaterTurnCarriesEarlierUnlessDeleted ==
  \A a \in Turns, b \in Turns :
    (/\ CompletedBefore(a, b)
     /\ NoClearLoadTrimSince(a)
     /\ events.wiped = turns[a].epoch.wiped) => CarriesTurn(a, b)

\* a turn of one session completed and the request of a turn of another
\* session, on another provider key, was built from the untouched log
C3_SecondSessionRequestReached ==
  \E a \in Turns, b \in Turns :
    /\ CompletedBefore(a, b)
    /\ NoClearLoadTrimSince(a)
    /\ events.wiped = turns[a].epoch.wiped
    /\ turns[a].conn # turns[b].conn
    /\ turns[a].provider # turns[b].provider
    /\ Len(turns[b].messages) = 4

(* ------------------------- fallback and streaming --------------------- *)

\* positions of the messages of one type among the messages o of a turn
Positions(o, type) == { i \in 1..Len(o) : o[i].type = type }

Count(o, type) == Cardinality(Positions(o, type))

\* the log holds an assistant message with text streamed in turn t
HasResponseOf(h, t) ==
  \E i \in 1..Len(h) :
    /\ h[i].role = "assistant"
    /\ \E j \in 1..Len(h[i].content.text) :
         /\ h[i].content.text[j].t = t
         /\ h[i].content.text[j].k \in {"primary", "backup"}

\* C6: when the requested provider failed before any chunk of it was sent
\* and the backup's stream delivered a chunk, the turn has sent exactly one
\* backup_switch message and a streaming message after it.
C6_OneSwitchThenStreaming ==
  \A t \in Turns :
    (turns[t].failure # None /\ turns[t].n_primary = 0 /\ turns[t].n_backup >= 1) =>
      /\ Count(out[t], "backup_switch") = 1
      /\ \E i \in Positions(out[t], "backup_switch") :
           \E j \in Positions(out[t], "streaming") : i < j

\* a turn whose requested provider streamed nothing has completed on the
\* text of a backup
C6_BackupCompletedReached ==
  \E t \in Turns :
    /\ turns[t].failure # None
    /\ turns[t].n_primary = 0
    /\ turns[t].n_backup >= 1
    /\ turns[t].full_response # << >>
    /\ turns[t].outcome = "complete"
    /\ Count(out[t], "complete") = 1

\* the requested provider of turn t failed and _try_backup finds no
\* provider for it
ChainExhausted(t) ==
  /\ turns[t].failure # None
  /\ ~TryBackup(backup_chain, turns[t].provider).ok

\* C7 as stated: a turn that ended because its provider failed and the chain
\* was exhausted has sent exactly one error message and no complete
\* message, and the log holds no assistant message of it.
C7_ExhaustedOneError ==
  \A t \in Turns :
    (turns[t].pc = "done" /\ ChainExhausted(t)) =>
      /\ Count(out[t], "error") = 1
      /\ Count(out[t], "complete") = 0
      /\ ~HasResponseOf(conversation_history, t)

\* C7 amended: the step that ends such a turn sends exactly one error
\* message when the connection is open at that moment and none when it is
\* closed; either way there is no complete message and no assistant message
\* of the turn in the log.
C7_ExhaustedOneErrorIfOpen ==
  [][\A t \in Turns :
       (turns[t].pc # "done" /\ turns'[t].pc = "done" /\ ChainExhausted(t)') =>
         /\ Count(out'[t], "error") = IF is_ws_connected(turns[t].conn) THEN 1 ELSE 0
         /\ Count(out'[t], "complete") = 0
         /\ ~HasResponseOf(conversation_history', t)]_vars

\* a stream failed after a chunk of it was sent, on an open connection, and
\* the chain had nothing left: the turn ended with the error message
C7_ExhaustedAfterChunkReached ==
  \E t \in Turns :
    /\ turns[t].pc = "done"
    /\ ChainExhausted(t)
    /\ turns[t].failure = "stream"
    /\ turns[t].n_primary >= 1
    /\ is_ws_connected(turns[t].conn)
    /\ out[t][Len(out[t])].type = "error"

(* ----------------------------- _try_backup ---------------------------- *)

\* the first position of f in the chain c, 0 when f is not in c
FirstPosition(c, f) ==
  LET P == { i \in 1..Len(c) : c[i] = f }
  IN  IF P = {} THEN 0 ELSE CHOOSE i \in P : \A j \in P : i <= j

\* the call attempted exactly the entries after position pos, in chain
\* order, up to the first that can be constructed, and returned that one
SearchedAfter(pos) ==
  LET c    == backup_chain
      good == { i \in (pos + 1)..Len(c) : CanConstruct(c[i]) }
      last == IF good = {} THEN Len(c) ELSE CHOOSE i \in good : \A j \in good : i <= j
  IN  /\ Len(fb.attempts) = last - pos
      /\ \A i \in 1..(last - pos) : fb.attempts[i] = c[pos + i]
      /\ fb.ok = (good # {})
      /\ fb.ok => fb.llm = c[last]

C9_SwitchBeforeBackupOutput ==
  \A t \in Turns :
    (/\ turns[t].llm # None
     /\ turns[t].llm # turns[t].provider
     /\ turns[t].n_primary + turns[t].n_backup >= 1) =>
      \E s \in Positions(out[t], "backup_switch") :
        /\ out[t][s].original_provider = turns[t].provider
        /\ out[t][s].backup_provider = ClientLabel(turns[t].llm)
        /\ \A i \in Positions(out[t], "streaming") :
             Cardinality({ j \in Positions(out[t], "streaming") : j < i })
               >= turns[t].n_primary => s < i

\* a turn asked of a provider that is not registered streams the text of
\* the backup
C9_OtherProviderStreamsReached ==
  \E t \in Turns :
    /\ turns[t].provider = "openai"
    /\ turns[t].llm = "claude"
    /\ turns[t].failure = "get_llm"
    /\ turns[t].n_backup = MaxChunks
    /\ Count(out[t], "streaming") = MaxChunks

\* C10: a turn that returned because the connection was found closed sends
\* nothing more, has sent neither complete nor error, has no assistant
\* message in the log and no usage record.
C10_ClosedTurnStops ==
  /\ [](\A t \in Turns :
          turns[t].outcome = "abandoned" =>
            /\ Count(out[t], "complete") = 0
            /\ Count(out[t], "error") = 0
            /\ ~HasResponseOf(conversation_history, t)
            /\ turns[t].usage = NoTokenUsage)
  /\ [][\A t \in Turns :
          turns[t].outcome = "abandoned" => (out'[t] = out[t] /\ turns'[t] = turns[t])]_vars

\* the connection was found closed at a chunk boundary of the requested
\* provider's stream, after a chunk had been sent
C10_ClosedAfterChunkReached ==
  \E t \in Turns :
    /\ turns[t].outcome = "abandoned"
    /\ turns[t].failure = None
    /\ turns[t].n_primary >= 1
    /\ turns[t].full_response # << >>
    /\ Count(out[t], "streaming") = turns[t].n_primary

(* --------------------------- sessions and usage ----------------------- *)

\* C11: once the disconnect of a connection has been handled, the usage map
\* holds no entry for the session id of that connection, in any later state
\* and whatever the turns of that connection still do.
C11_NoUsageAfterDisconnect ==
  \A w \in Conns : conn[w].state = "closed" => w \notin DOMAIN sessions

(* ---------------------------- rejected input -------------------------- *)

\* the message of turn t is empty or made of whitespace, and nothing is attached
EmptyInput(t) ==
  /\ \A i \in 1..Len(turns[t].message) : turns[t].message[i].k = "ws"
  /\ turns[t].attachments = << >>

\* C12 as stated: a turn whose message is empty or whitespace-only and that
\* has no attachments has, once it is over, sent exactly one error message.
C12_EmptyInputOneError ==
  \A t \in Turns :
    (EmptyInput(t) /\ turns[t].pc = "done") => Count(out[t], "error") = 1

\* C12 amended: the first step of such a turn ends it; it sends one error
\* message and nothing else when the connection is open at that moment and
\* nothing when it is closed; the log, the current conversation id, the
\* usage map and the repository stay as they are, and the turn has made no
\* search, no retrieval and no backend call.
C12_EmptyInputRejected ==
  [][\A t \in Turns :
       (EmptyInput(t) /\ turns'[t] # turns[t]) =>
         /\ turns[t].pc = "start"
         /\ turns'[t] = [turns[t] EXCEPT !.pc = "done", !.outcome = "rejected"]
         /\ turns'[t].search = None /\ turns'[t].rag = None
         /\ turns'[t].llm = None /\ turns'[t].messages = << >>
         /\ out'[t] = IF is_ws_connected(turns[t].conn)
                      THEN << Event("error", turns[t].provider, t) >> ELSE << >>
         /\ UNCHANGED << conversation_history, current_conversation_id, sessions, db >>
    ]_vars

\* a whitespace-only message without attachments was rejected with the
\* error message on an open connection
C12_WhitespaceRejectedReached ==
  \E t \in Turns :
    /\ EmptyInput(t)
    /\ turns[t].message # << >>
    /\ turns[t].outcome = "rejected"
    /\ is_ws_connected(turns[t].conn)
    /\ out[t] = << Event("error", turns[t].provider, t) >>

\* C13: a turn on a connection whose provider key is not a registered
\* provider opens no backend stream: no client is obtained for it, neither
\* of the requested provider nor of a backup, and it sends no backup_switch
\* and no streaming message; when it is over it has ended with an error.
C13_UnknownProviderRejected ==
  \A t \in Turns :
    (turns[t].provider \notin PROVIDER_CONFIGS /\ ~EmptyInput(t)) =>
      /\ turns[t].llm = None
      /\ turns[t].pc \notin {"primary", "backup"}
      /\ Count(out[t], "backup_switch") = 0
      /\ Count(out[t], "streaming") = 0
      /\ turns[t].pc = "done" => turns[t].outcome \in {"error", "abandoned"}

\* the sum of field f over the usage records rs
RECURSIVE SumOf(_, _)
SumOf(rs, f) == IF rs = << >> THEN 0 ELSE Head(rs)[f] + SumOf(Tail(rs), f)

\* C14: in every state and for every session of the usage map, the totals
\* are the sums of the input tokens, output tokens, total tokens and cost of
\* the usage records added to the session since its entry was created or
\* last reset, message_count is the number of these records, every record
\* has total_tokens = input_tokens + output_tokens, and no value is negative.
C14_TotalsAreSums ==
  \A w \in DOMAIN sessions :
    LET rs == events.ledger[w]
        su == sessions[w]
    IN  /\ su.total_input_tokens = SumOf(rs, "input_tokens")
        /\ su.total_output_tokens = SumOf(rs, "output_tokens")
        /\ su.total_tokens = SumOf(rs, "total_tokens")
        /\ su.total_cost = SumOf(rs, "cost")
        /\ su.message_count = Len(rs)
        /\ \A i \in 1..Len(rs) :
             /\ rs[i].total_tokens = rs[i].input_tokens + rs[i].output_tokens
             /\ rs[i].input_tokens >= 0 /\ rs[i].output_tokens >= 0 /\ rs[i].cost >= 0
        /\ su.total_input_tokens >= 0 /\ su.total_output_tokens >= 0
        /\ su.total_tokens >= 0 /\ su.total_cost >= 0 /\ su.message_count >= 0

\* a session holds the sums of two usage records of different sizes
C14_TwoRecordsReached ==
  \E w \in DOMAIN sessions :
    /\ Len(events.ledger[w]) = 2
    /\ events.ledger[w][1] # events.ledger[w][2]
    /\ sessions[w].message_count = 2
    /\ sessions[w].total_tokens =
         events.ledger[w][1].total_tokens + events.ledger[w][2].total_tokens

(* --------------------------- context assembly ------------------------- *)

\* the position of the first token of kind k in the text s, 0 when none
PositionOf(s, k) ==
  IF \E i \in 1..Len(s) : s[i].k = k
  THEN CHOOSE i \in 1..Len(s) : s[i].k = k /\ \A j \in 1..(i - 1) : s[j].k # k
  ELSE 0

\* turn t has built its user text from a message, retrieved passages and
\* search results
BothContexts(t) ==
  /\ turns[t].search = "results"
  /\ turns[t].rag = "results"
  /\ PositionOf(turns[t].message, "msg") > 0

\* C15: when a turn has both retrieved passages and search results, the
\* text it stores for the user message has the retrieved passages first,
\* the search results after them and the user text last.
C15_RetrievedThenSearchThenUser ==
  \A t \in Turns :
    BothContexts(t) =>
      /\ 0 < PositionOf(turns[t].text, "rag")
      /\ PositionOf(turns[t].text, "rag") < PositionOf(turns[t].text, "search")
      /\ PositionOf(turns[t].text, "search") < PositionOf(turns[t].text, "msg")

\* the web search or the retrieval of turn t failed or returned nothing
ContextFailed(t) ==
  \/ turns[t].search = "nothing"
  \/ turns[t].rag \in {"raises", "nothing"}

\* the text s holds a token of kind k
HasToken(s, k) == PositionOf(s, k) > 0

\* C16: a turn whose web search or retrieval failed or returned nothing is
\* not ended by the context stage: its user text is built without the
\* missing context and appended to the log, it sends an error message and
\* ends in error only after a backend failure, and otherwise ends in complete.
C16_ContextFailureNotFatal ==
  \A t \in Turns :
    ContextFailed(t) =>
      /\ turns[t].search # "results" => ~HasToken(turns[t].text, "search")
      /\ turns[t].rag # "results" => ~HasToken(turns[t].text, "rag")
      /\ turns[t].pc \notin {"start", "append"} =>
           \E i \in 1..Len(conversation_history) :
             conversation_history[i] = HumanMessage(TextContent(turns[t].text))
      /\ Count(out[t], "error") > 0 => (turns[t].failure # None /\ turns[t].outcome = "error")
      /\ turns[t].pc = "done" => turns[t].outcome \in {"complete", "error"}
      /\ turns[t].outcome = "error" => turns[t].failure # None
      /\ turns[t].outcome = "complete" => Count(out[t], "complete") = 1

\* C17: every message of the shared log has plain-text content; a request
\* holds a multimodal message only as its last message, in place of the
\* plain user message of the log, and only for a turn with image parts.
C17_LogIsPlainText ==
  /\ \A i \in 1..Len(conversation_history) :
       /\ conversation_history[i].content.kind = "text"
       /\ conversation_history[i].content.images = << >>
  /\ \A t \in Turns :
       LET msgs == turns[t].messages
       IN  /\ \A i \in 1..Len(msgs) :
                msgs[i].content.kind # "text" =>
                  /\ i = Len(msgs)
                  /\ ImageParts(turns[t].attachments) # << >>
                  /\ msgs[i] = HumanMessage(MultimodalContent(turns[t].text,
                                               ImageParts(turns[t].attachments)))
           /\ (msgs # << >> /\ ImageParts(turns[t].attachments) # << >>) =>
                msgs[Len(msgs)].content.kind = "multimodal"

\* a turn with an image was answered: its request ended with the multimodal
\* message while the log holds the plain text of it
C17_ImageTurnAnsweredReached ==
  \E t \in Turns :
    /\ ImageParts(turns[t].attachments) # << >>
    /\ turns[t].outcome = "complete"
    /\ turns[t].full_response # << >>
    /\ turns[t].messages[Len(turns[t].messages)].content.images # << >>
    /\ \E i \in 1..Len(conversation_history) :
         conversation_history[i] = HumanMessage(TextContent(turns[t].text))

(* --------------------------- the dispatch loop ------------------------ *)

\* C18: while a turn of a connection is running and the connection is being
\* served, its dispatch loop is at receive_json: a rating event and a
\* clear_history event of that connection can be handled in that state,
\* without the turn having to finish.
C18_LoopServesDuringTurn ==
  \A t \in Turns :
    (turns[t].pc # "done" /\ conn[turns[t].conn].state = "open"
       /\ conn[turns[t].conn].loop # "exited") =>
      /\ \A r \in Ratings : ENABLED Rating(turns[t].conn, 0, r)
      /\ ENABLED ClearHistory(turns[t].conn)

\* a rating and a clear_history of the connection were both handled after
\* its turn had started and before the turn, now streaming, has finished
C18_HandledDuringTurnReached ==
  \E t \in Turns :
    /\ turns[t].pc = "primary"
    /\ turns[t].n_primary >= 1
    /\ turns[t].epoch.ratings = 0 /\ events.ratings = 1
    /\ turns[t].epoch.clear = 0 /\ events.clear = 1
    /\ events.clear_by = turns[t].conn
    /\ 0 \in DOMAIN user_ratings
    /\ turns[t].provider \in DOMAIN user_ratings[0]
    /\ LastSent(turns[t].conn).type = "history_cleared"

\* C19: the step that handles a malformed frame of a connection leaves the
\* connection and its dispatch loop as they are, the registry as it is and
\* the usage map as it is.
C19_MalformedIgnored ==
  [][\A w \in Conns :
       MalformedEvent(w) => UNCHANGED << conn, active_connections, sessions >>]_vars

\* C20: the step that connects websocket w under key p leaves the registry
\* mapping p to w and every other key as before, whatever was registered
\* under p; no other connection changes its state or its dispatch loop, and
\* the turns and what they and the other loops have delivered stay as they
\* are.
C20_LastConnectWins ==
  [][\A w \in Conns, p \in ProviderKeys :
       Connect(w, p) =>
         /\ active_connections'[p] = w
         /\ \A q \in ProviderKeys \ {p} : active_connections'[q] = active_connections[q]
         /\ \A v \in Conns \ {w} : conn'[v] = conn[v] /\ sent'[v] = sent[v]
         /\ turns' = turns /\ out' = out]_vars

\* a second websocket connected under the key of the first while a turn of
\* the first was running: the registry names the second, the first is still
\* open, and its turn went on to deliver every message up to complete
C20_EvictedTurnCompletedReached ==
  \E t \in Turns, v \in Conns :
    /\ events.connects = 2
    /\ events.connect_during = t
    /\ v # turns[t].conn
    /\ conn[v].provider = turns[t].provider
    /\ active_connections[turns[t].provider] = v
    /\ conn[turns[t].conn].state = "open"
    /\ turns[t].outcome = "complete"
    /\ Count(out[t], "streaming") = turns[t].n_primary
    /\ turns[t].n_primary >= 1
    /\ out[t][Len(out[t])].type = "complete"

(* ------------------------------ retries ------------------------------- *)

\* the fallback of turn t was invoked: _try_backup was called after a
\* failure of the requested provider's stream
FallbackInvoked(t) ==
  /\ turns[t].failure = "stream"
  /\ \/ turns[t].pc = "backup"
     \/ turns[t].outcome \in {"complete", "error"}

\* C21: when the stream of the requested provider raised a rate-limit
\* error and the fallback was invoked, the provider had been attempted
\* max_attempts times.
C21_FallbackAfterLastAttempt ==
  \A t \in Turns :
    (FallbackInvoked(t) /\ turns[t].transient) => turns[t].attempts = max_attempts

(* ------------------------ the messages of a turn ---------------------- *)

\* the chunks of the streaming messages of o, joined in the order of o
RECURSIVE JoinChunks(_)
JoinChunks(o) ==
  IF o = << >> THEN << >>
  ELSE (IF Head(o).type = "streaming" THEN Head(o).chunk ELSE << >>) \o JoinChunks(Tail(o))

\* C22: the streaming messages of a turn are one per chunk the turn took
\* from its streams, in the order the chunks came; the turn sends at most
\* one terminal message, a complete or an error, never both, and the
\* terminal message is the last message of the turn.
C22_ChunksInOrderOneTerminal ==
  \A t \in Turns :
    /\ Count(out[t], "streaming") = turns[t].n_primary + turns[t].n_backup
    /\ \A i \in 1..Len(JoinChunks(out[t])) :
         \A j \in 1..(i - 1) :
           LET a == JoinChunks(out[t])[j]
               b == JoinChunks(out[t])[i]
           IN  \/ a.k = "primary" /\ b.k = "primary" /\ a.i < b.i
               \/ a.k = "primary" /\ b.k \in {"backup", "repr"}
               \/ a.k \in {"backup", "repr"} /\ b.k \in {"backup", "repr"} /\ a.i < b.i
    /\ Count(out[t], "complete") + Count(out[t], "error") <= 1
    /\ \A i \in 1..Len(out[t]) :
         out[t][i].type \in {"complete", "error"} => i = Len(out[t])

\* a turn streamed two chunks of the requested provider, a chunk of the
\* backup after the failure, and ended with complete
C22_BothStreamsCompletedReached ==
  \E t \in Turns :
    /\ turns[t].n_primary = 2
    /\ turns[t].n_backup >= 1
    /\ Len(turns[t].full_response) >= 3
    /\ turns[t].outcome = "complete"
    /\ out[t][Len(out[t])].type = "complete"

\* the positions of the log that hold the response of turn t as an
\* assistant message
ResponsesOf(t) ==
  { i \in 1..Len(conversation_history) :
      conversation_history[i] = AIMessage(TextContent(turns[t].full_response)) }

\* the stream of turn t ran to its end without an exception, with text, and
\* the turn has sent its last message on the open connection
CompletedWithText(t) ==
  /\ turns[t].completed
  /\ turns[t].full_response # << >>
  /\ turns[t].pc = "done"
  /\ Len(out[t]) > 0
  /\ out[t][Len(out[t])].type \in {"complete", "error"}

\* C23: every turn whose stream completed normally with text has exactly one
\* assistant message with the accumulated response in the log and exactly
\* one usage record, whose usage message was sent just before the
\* complete message that ends the turn.
C23_CompletedStreamRecorded ==
  \A t \in Turns :
    CompletedWithText(t) =>
      /\ Cardinality(ResponsesOf(t)) = 1
      /\ turns[t].usage # NoTokenUsage
      /\ turns[t].usage.output_tokens = count_tokens(turns[t].full_response)
      /\ Count(out[t], "usage") = 1
      /\ Count(out[t], "complete") = 1
      /\ Len(out[t]) >= 2
      /\ out[t][Len(out[t])].type = "complete"
      /\ out[t][Len(out[t]) - 1].type = "usage"
      /\ out[t][Len(out[t]) - 1].message = turns[t].usage

(* ---------------------------- track_usage ---------------------------- *)

\* the tokens of the text of each message of msgs plus 4 per message
RECURSIVE SumOfContentTokens(_)
SumOfContentTokens(msgs) ==
  IF msgs = << >> THEN 0
  ELSE Len(Head(msgs).content.text) + 4 + SumOfContentTokens(Tail(msgs))

\* C24: a track_usage call returns a record whose input_tokens is the sum
\* over the message list of (tokens of the content + 4) when the list is
\* not empty and the tokens of the input text otherwise, whose
\* output_tokens is the tokens of the output text, and whose total_tokens
\* is the sum of the two.
C24_TokensOfTrackUsage ==
  fb.phase = "track_usage" =>
    /\ ~fb.raised
    /\ fb.usage.input_tokens =
         (IF fb.msgs # << >> THEN SumOfContentTokens(fb.msgs) ELSE Len(fb.input_text))
    /\ fb.usage.output_tokens = Len(fb.output_text)
    /\ fb.usage.total_tokens = fb.usage.input_tokens + fb.usage.output_tokens

\* the rates the claim names, per token in 10^-8 USD
ExpectedRates(model, lookup) ==
  IF lookup = "found" THEN [input |-> 2000, output |-> 8000]
  ELSE IF model = "claude-sonnet-4-20250514" THEN [input |-> 300, output |-> 1500]
  ELSE [input |-> 1000, output |-> 3000]

\* C25: the cost of a usage record is computed with the rates of the rate
\* table when the model is found there, else with the rates configured for
\* the model name, else with the default rates; a lookup that fails counts
\* as not found, and track_usage raises only when the token count does.
C25_RatesByLookup ==
  fb.phase = "track_usage" =>
    /\ fb.raised <=> (fb.msgs # << >> /\ CountRaises(fb.msgs))
    /\ ~fb.raised =>
         LET r == ExpectedRates(fb.model, fb.lookup)
         IN  fb.usage.cost = fb.usage.input_tokens * r.input
                             + fb.usage.output_tokens * r.output

\* a call whose lookup failed returned a record priced with the rates
\* configured for the model
C25_FailedLookupPricedReached ==
  /\ fb.phase = "track_usage"
  /\ fb.lookup = "fails"
  /\ fb.model = "claude-sonnet-4-20250514"
  /\ ~fb.raised
  /\ fb.usage.output_tokens = 1
  /\ fb.usage.cost = fb.usage.input_tokens * 300 + 1500

(* ------------------------ reset and removal --------------------------- *)

\* every session but sid has its entry and its totals as before
OthersUnchanged(sid) ==
  /\ DOMAIN sessions' \ {sid} = DOMAIN sessions \ {sid}
  /\ \A o \in DOMAIN sessions \ {sid} : sessions'[o] = sessions[o]

\* C26: reset_session(s) sets the five totals of s to zero and keeps its
\* entry, creating none when s has none; remove_session(s) deletes the
\* entry of s; both leave the entry and totals of every other session as
\* they were.
C26_ResetAndRemoveFrame ==
  [][\A sid \in Conns :
       /\ CallResetSession(sid) =>
            /\ (sid \in DOMAIN sessions') <=> (sid \in DOMAIN sessions)
            /\ sid \in DOMAIN sessions =>
                 /\ sessions'[sid].total_input_tokens = 0
                 /\ sessions'[sid].total_output_tokens = 0
                 /\ sessions'[sid].total_tokens = 0
                 /\ sessions'[sid].total_cost = 0
                 /\ sessions'[sid].message_count = 0
            /\ OthersUnchanged(sid)
       /\ CallRemoveSession(sid) =>
            /\ sid \notin DOMAIN sessions'
            /\ OthersUnchanged(sid)]_vars

\* reset_session was called for a session with records while the other
\* session holds two records
C26_ResetBesideOtherReached ==
  /\ fb.phase = "reset_session"
  /\ fb.session = "w1"
  /\ DOMAIN sessions = {"w1", "w2"}
  /\ sessions["w1"] = ZeroUsage
  /\ sessions["w2"].message_count = 2
  /\ sessions["w2"].total_tokens > 0

(* --------------------------- load_conversation ------------------------ *)

\* the user and assistant rows of rows, in their order, as messages
StoredMessages(rows) ==
  LET kept == SelectSeq(rows, LAMBDA r : r.role \in {"user", "assistant"})
  IN  [i \in 1..Len(kept) |->
         [role |-> kept[i].role, content |-> TextContent(kept[i].content)]]

\* C27: when a load_conversation event names a conversation the repository
\* returned, the log becomes exactly the user and assistant messages of the
\* returned rows in stored order, whatever it held before, the current
\* conversation id becomes the loaded id, and one conversation_loaded
\* message for that id is sent to the client.
C27_LoadReplacesLog ==
  [][\A w \in Conns :
       (LoadApply(w) /\ conn[w].found) =>
         /\ conversation_history' = StoredMessages(conn[w].rows)
         /\ current_conversation_id' = conn[w].conv_id
         /\ Len(sent'[w]) = Len(sent[w]) + 1
         /\ sent'[w][Len(sent'[w])].type = "conversation_loaded"
         /\ sent'[w][Len(sent'[w])].conversation_id = conn[w].conv_id]_vars

\* a conversation was loaded over the log of an answered turn: the log holds
\* the stored messages without the system row and nothing of the turn
C27_LoadedOverTurnReached ==
  /\ events.loaded = 1
  /\ current_conversation_id = "c1"
  /\ "c1" \in DOMAIN db
  /\ Len(conversation_history) = Len(db["c1"]) - 1
  /\ conversation_history[1].content.text = db["c1"][2].content
  /\ \E t \in Turns : turns[t].outcome = "complete" /\ ~HasResponseOf(conversation_history, t)
  /\ sent["w1"][Len(sent["w1"])].type = "conversation_loaded"

(* ------------------------ repository failures ------------------------- *)

\* C28: a turn during which the repository failed, whose stream ended with
\* text on the open connection, has streamed every chunk, ends with the
\* complete message, and has its user message and its assistant message in
\* the log.
C28_RepositoryFailureNotFatal ==
  \A t \in Turns :
    (turns[t].repo_failed /\ CompletedWithText(t)) =>
      /\ Count(out[t], "streaming") = turns[t].n_primary
      /\ JoinChunks(out[t]) = turns[t].full_response
      /\ turns[t].outcome = "complete"
      /\ out[t][Len(out[t])].type = "complete"
      /\ \E i \in 1..Len(conversation_history) :
           conversation_history[i] = HumanMessage(TextContent(turns[t].text))
      /\ Cardinality(ResponsesOf(t)) = 1

(* ----------------------------- termination ---------------------------- *)

\* turn t is over and has sent one complete or one error message, not both
Ended(t) ==
  /\ t \in Turns
  /\ turns[t].pc = "done"
  /\ Count(out[t], "complete") + Count(out[t], "error") = 1

C30_ConnectedComesFirst ==
  \A w \in Conns :
    IF conn[w].state = "new"
    THEN /\ sent[w] = << >>
         /\ \A t \in Turns : turns[t].conn # w
    ELSE /\ sent[w] # << >>
         /\ sent[w][1].type = "connected"
         /\ sent[w][1].provider = conn[w].provider
         /\ \A i \in 2..Len(sent[w]) : sent[w][i].type # "connected"

\* two connections under different provider keys were accepted and one of
\* them has been sent the chunks of a turn
C30_GreetedThenStreamedReached ==
  /\ conn["w1"].state = "open" /\ conn["w2"].state = "open"
  /\ conn["w1"].provider # conn["w2"].provider
  /\ sent["w2"][1].provider = conn["w2"].provider
  /\ \E t \in Turns : turns[t].conn = "w2" /\ Count(out[t], "streaming") > 0

(* ------------------------ the request of a turn ----------------------- *)

\* C31: the message list of a turn is fixed when it is built: no later step
\* changes it, whatever happens to the shared log, and the step that turns to
\* the backup hands the backup exactly that list.
C31_BackupGetsSameList ==
  [][\A t \in Turns :
       /\ turns[t].messages # << >> => turns'[t].messages = turns[t].messages
       /\ (turns[t].pc # "backup" /\ turns'[t].pc = "backup") =>
            turns'[t].backup_messages = turns'[t].messages
       /\ turns[t].pc = "backup" =>
            turns'[t].backup_messages = turns[t].backup_messages]_vars

\* the backup of a turn was called after a clear_history emptied the log
\* during the stream of the requested provider: its list still holds the
\* user message of the turn
C31_BackupAfterClearReached ==
  \E t \in Turns :
    /\ turns[t].n_primary > 0
    /\ turns[t].n_backup > 0
    /\ events.clear > turns[t].epoch.clear
    /\ conversation_history = << >>
    /\ Len(turns[t].backup_messages) = 2
    /\ turns[t].backup_messages[2] = HumanMessage(TextContent(turns[t].text))

\* the elements of the sequence s
Range(s) == { s[i] : i \in 1..Len(s) }

\* C32: the step that builds the request of a turn with images puts the
\* turn's own user message into it exactly once, in multimodal form and as
\* the last message, and leaves out no message of another turn that is in
\* the log at that moment.
C32_ImageRequestComplete ==
  [][\A t \in Turns :
       (turns[t].pc = "build" /\ turns'[t].pc # "build"
          /\ ImageParts(turns[t].attachments) # << >>) =>
         LET m     == turns'[t].messages
             plain == HumanMessage(TextContent(turns[t].text))
             multi == HumanMessage(MultimodalContent(turns[t].text,
                                      ImageParts(turns[t].attachments)))
         IN  /\ m[Len(m)] = multi
             /\ Cardinality({ i \in 1..Len(m) : m[i] \in {plain, multi} }) = 1
             /\ \A i \in 1..Len(conversation_history) :
                  conversation_history[i] # plain =>
                    conversation_history[i] \in Range(m)]_vars

(* ------------------------- the backup chain --------------------------- *)

\* the stream of the backup of turn t raised on an open connection and the
\* turn ended with the error message
BackupStreamFailed(t) ==
  /\ turns[t].pc = "done"
  /\ turns[t].outcome = "error"
  /\ ~turns[t].completed
  /\ Count(out[t], "backup_switch") = 1
  /\ Count(out[t], "error") = 1

\* C33: when the error message of a turn follows the failure of a backup
\* stream, every provider placed after the failed one in the chain was
\* tried for the turn.
C33_ErrorAfterWholeChain ==
  \A t \in Turns :
    BackupStreamFailed(t) =>
      Len(TryBackup(backup_chain, turns[t].provider).attempts)
        = Len(backup_chain) - ChainIndex(backup_chain, turns[t].provider)

(* --------------------------- the registry ----------------------------- *)

\* C34: when a connection disconnects, every provider key that the registry
\* maps to another connection, still open, stays mapped to that connection.
C34_DisconnectRemovesOwnEntry ==
  [][\A w \in Conns :
       (conn[w].state = "open" /\ conn'[w].state = "closed") =>
         \A p \in ProviderKeys :
           (/\ active_connections[p] \notin {None, w}
            /\ conn[active_connections[p]].state = "open") =>
             active_connections'[p] = active_connections[p]]_vars

(* ----------------------- overlapping turns ---------------------------- *)

\* C35: since the current conversation id was last reset (or since the
\* start), at most one conversation has been created.
C35_OneCreationPerReset == events.created - events.at_reset <= 1

\* the repository conversations that hold the user row, and the assistant
\* row, of turn t
UserRowIn(t) ==
  { c \in DOMAIN db : \E i \in 1..Len(db[c]) : db[c][i] = Row("user", turns[t].text) }

AssistantRowIn(t) ==
  { c \in DOMAIN db :
      /\ turns[t].full_response # << >>
      /\ \E i \in 1..Len(db[c]) : db[c][i] = Row("assistant", turns[t].full_response) }

\* C36: the assistant message of a turn is saved to the repository
\* conversation that holds the user message of the turn.
C36_AssistantSavedWithUser ==
  \A t \in Turns :
    UserRowIn(t) # {} => AssistantRowIn(t) \subseteq UserRowIn(t)

(* ----------------------- the appended response ------------------------ *)

\* C37: when the requested provider failed after some chunks and the stream
\* of the backup completed, the assistant message the turn appends to the
\* log holds the chunks of all streaming messages of the turn, joined in the
\* order they were sent.
C37_ResponseJoinsSentChunks ==
  [][\A t \in Turns :
       (/\ turns[t].pc = "backup"
        /\ turns[t].n_primary > 0
        /\ turns'[t].completed
        /\ Len(conversation_history') = Len(conversation_history) + 1) =>
         conversation_history'[Len(conversation_history')]
           = AIMessage(TextContent(JoinChunks(out[t])))]_vars

(* ----------------------- turns without a reply ------------------------ *)

\* turn a ended with the error message or was abandoned after its request
\* was built, so after its user message was appended, and no stream of it
\* ran to its end
EndedWithoutReply(a) ==
  /\ turns[a].pc = "done"
  /\ turns[a].outcome \in {"error", "abandoned"}
  /\ turns[a].messages # << >>
  /\ ~turns[a].completed

\* C38: the user message of a turn that ended with an error or was abandoned
\* after the message was appended stays in the log, and the request of a
\* later turn holds it with a user message, not an assistant reply, right
\* after it.
C38_FailedTurnStaysInLog ==
  \A a \in Turns :
    EndedWithoutReply(a) =>
      LET own == HumanMessage(TextContent(turns[a].text))
      IN  /\ \E i \in 1..Len(conversation_history) : conversation_history[i] = own
          /\ \A b \in Turns :
               (a < b /\ turns[b].messages # << >>) =>
                 \E i \in 1..(Len(turns[b].messages) - 1) :
                   /\ turns[b].messages[i] = own
                   /\ turns[b].messages[i + 1].role = "user"

\* a turn ended with the error message, another was abandoned, and the
\* request of the later one holds the user message of the earlier one
C38_RequestAfterFailureReached ==
  \E a, b \in Turns :
    /\ a < b
    /\ EndedWithoutReply(a)
    /\ turns[a].outcome = "error"
    /\ turns[b].outcome = "abandoned"
    /\ Len(turns[b].messages) = 3
    /\ turns[b].messages[2] = HumanMessage(TextContent(turns[a].text))

(* --------------------------- clear_history ---------------------------- *)

\* C39: a clear_history event of a client empties the shared log and sets
\* the usage totals of the session of that client to zero; the entry of
\* every other session stays as it is, and no other entry appears.
C39_ClearResetsOwnSession ==
  [][\A w \in Conns :
       (events'.clear = events.clear + 1 /\ events'.clear_by = w) =>
         /\ conversation_history' = << >>
         /\ sessions'[w] = ZeroUsage
         /\ DOMAIN sessions' = DOMAIN sessions \cup {w}
         /\ \A x \in DOMAIN sessions \ {w} : sessions'[x] = sessions[x]]_vars

\* both clients completed a turn with counted tokens, then one of them
\* cleared: the log is empty, its totals are zero, the other's are not
C39_ClearedBesideOtherReached ==
  \E a, b \in Turns :
    /\ turns[a].conn = "w1" /\ turns[b].conn = "w2"
    /\ turns[a].outcome = "complete" /\ turns[b].outcome = "complete"
    /\ turns[a].usage.total_tokens > 0
    /\ events.clear = 1 /\ events.clear_by = "w1" /\ events.clear_turns = 2
    /\ conversation_history = << >>
    /\ "w1" \in DOMAIN sessions /\ sessions["w1"] = ZeroUsage
    /\ "w2" \in DOMAIN sessions /\ sessions["w2"].total_tokens > 0

(* ------------------------ a load that finds nothing ------------------ *)

\* C40: the load_conversation branch whose lookup returned nothing (no such
\* conversation, or a failed lookup) sends one error message to the client
\* and leaves the log, the current conversation id and the usage totals of
\* every session as they are.
C40_FailedLoadChangesNothing ==
  [][\A w \in Conns :
       (conn[w].loop = "loading" /\ conn'[w].loop = "recv" /\ ~conn[w].found) =>
         /\ sent'[w] = Append(sent[w], Event("error", conn[w].provider, 0))
         /\ conversation_history' = conversation_history
         /\ current_conversation_id' = current_conversation_id
         /\ sessions' = sessions]_vars

\* a load that found nothing was answered with the error message after a
\* turn completed: the log, the id and the totals of the turn are there
C40_FailedLoadAfterTurnReached ==
  \E t \in Turns :
    /\ turns[t].outcome = "complete"
    /\ events.load = 1 /\ events.loaded = 0
    /\ conn["w1"].loop = "recv"
    /\ LastSent("w1").type = "error"
    /\ Len(conversation_history) = 2
    /\ current_conversation_id # None
    /\ "w1" \in DOMAIN sessions /\ sessions["w1"].total_tokens > 0

====
